---------------------------- MODULE Spec2Model ----------------------------
(***************************************************************************)
(* Hybrid content search and embedding pipeline of the markdown site:      *)
(* the content gateway client (fetchContentFromIPFS with its primary /     *)
(* fallback policy), title-only search, full keyword search and semantic   *)
(* search.  Strings are TLC strings; the string helpers below compute what *)
(* the JavaScript string methods compute.                                  *)
(***************************************************************************)
EXTENDS Integers, Sequences, FiniteSets, TLC

VARIABLES
    gwPhase,      \* gateway client: "idle" | "done"
    gwEnv,        \* process.env.PINATA_GATEWAY_URL ("" when unset)
    gwVariant,    \* which module's copy of the client runs
    gwCid,        \* argument of the last fetchContentFromIPFS call
    gwNet,        \* what each gateway host answers to its k-th request
    gwOut,        \* outcome of the last call: requests sent, value or error
    db,           \* the store: the posts and pages tables
    srPhase,      \* search: "idle" | "done"
    srCall,       \* the last search call: mode, query, and what it consumed
    srOut,        \* its outcome: the returned list and what was gathered for it
    emDb,         \* the store of the embedding pipeline: documents with embeddings
    emEnv,        \* credential, gateway setting, and each document's fate
    emRun,        \* per runner: the pipeline invocation in progress
    emRunners,    \* the runners that may be invoked
    snIn,         \* snippets: the markdown text and the search term
    snPhase,      \* "input", then which function was applied
    snOut,        \* what createSnippet, the strip chain, generateSlug made
    hkCid,        \* useIPFSContent: the cid of the last render
    hkView,       \* the hook's state: content, isLoading, error
    hkFlights,    \* the fetches whose callbacks have not all run
    hkChanges     \* how often the cid has changed

gwVars == <<gwPhase, gwEnv, gwVariant, gwCid, gwNet, gwOut>>
srVars == <<db, srPhase, srCall, srOut>>
emVars == <<emDb, emEnv, emRun, emRunners>>
snVars == <<snIn, snPhase, snOut>>
hkVars == <<hkCid, hkView, hkFlights, hkChanges>>
vars == <<gwVars, srVars, emVars, snVars, hkVars>>

-----------------------------------------------------------------------------
(* String helpers (String.prototype.startsWith / endsWith / includes)      *)

StartsWith(s, p) == Len(s) >= Len(p) /\ SubSeq(s, 1, Len(p)) = p

EndsWith(s, p) == Len(s) >= Len(p) /\ SubSeq(s, Len(s) - Len(p) + 1, Len(s)) = p

Includes(s, p) ==
    \E i \in 1..(Len(s) - Len(p) + 1) : SubSeq(s, i, i + Len(p) - 1) = p


-----------------------------------------------------------------------------
(* More string helpers: toLowerCase, trim, split(/\s+/), slice             *)

CharAt(s, i) == SubSeq(s, i, i)

UpperLetters == "ABCDEFGHIJKLMNOPQRSTUVWXYZ"
LowerLetters == "abcdefghijklmnopqrstuvwxyz"
DigitChars == "0123456789"

InAlphabet(c, alphabet) == \E i \in 1..Len(alphabet) : CharAt(alphabet, i) = c

LowerChar(c) ==
    IF InAlphabet(c, UpperLetters)
    THEN CharAt(LowerLetters,
                CHOOSE i \in 1..Len(UpperLetters) : CharAt(UpperLetters, i) = c)
    ELSE c

RECURSIVE toLowerCase(_)
toLowerCase(s) ==
    IF s = "" THEN ""
    ELSE LowerChar(CharAt(s, 1)) \o toLowerCase(SubSeq(s, 2, Len(s)))

\* the characters \s matches, as far as the texts here contain them
IsSpace(c) == c \in {" ", "\t", "\n", "\r"}

RECURSIVE trimStart(_)
trimStart(s) ==
    IF s # "" /\ IsSpace(CharAt(s, 1)) THEN trimStart(SubSeq(s, 2, Len(s))) ELSE s

RECURSIVE trimEnd(_)
trimEnd(s) ==
    IF s # "" /\ IsSpace(CharAt(s, Len(s)))
    THEN trimEnd(SubSeq(s, 1, Len(s) - 1))
    ELSE s

\* String.prototype.trim leaving the string as it is
trim_None(s) == s

\* String.prototype.trim
trim(s) == trimEnd(trimStart(s))

\* s.slice(0, n)
SliceTo(s, n) == SubSeq(s, 1, IF Len(s) < n THEN Len(s) ELSE n)

\* s.split(/\s+/): the pieces between maximal runs of whitespace (a leading
\* or trailing run leaves an empty piece at that end)
RECURSIVE SplitFrom(_, _, _)
SplitFrom(s, i, piece) ==
    IF i > Len(s) THEN <<piece>>
    ELSE IF IsSpace(CharAt(s, i))
         THEN IF i > 1 /\ IsSpace(CharAt(s, i - 1))
              THEN SplitFrom(s, i + 1, piece)
              ELSE <<piece>> \o SplitFrom(s, i + 1, "")
         ELSE SplitFrom(s, i + 1, piece \o CharAt(s, i))

splitWhitespace(s) == SplitFrom(s, 1, "")

\* the last n items instead of the first n
Take_Last(items, n) ==
    SubSeq(items, IF Len(items) < n THEN 1 ELSE Len(items) - n + 1, Len(items))

\* items.slice(0, n) of an array
Take(items, n) == SubSeq(items, 1, IF Len(items) < n THEN Len(items) ELSE n)

RECURSIVE Reverse(_)
Reverse(items) ==
    IF items = <<>> THEN <<>> ELSE Reverse(Tail(items)) \o <<Head(items)>>

\* Array.prototype.sort is stable: an insertion sort on integer keys, smaller
\* key first, equal keys in their original order.
RECURSIVE InsertByKey(_, _)
InsertByKey(sorted, e) ==
    IF sorted = <<>> THEN <<e>>
    ELSE IF e.key < Head(sorted).key
         THEN <<e>> \o sorted
         ELSE <<Head(sorted)>> \o InsertByKey(Tail(sorted), e)

RECURSIVE StableSort(_)
StableSort(keyed) ==
    IF keyed = <<>> THEN <<>>
    ELSE InsertByKey(StableSort(SubSeq(keyed, 1, Len(keyed) - 1)), keyed[Len(keyed)])


-----------------------------------------------------------------------------
(* String.prototype.replace with the regular expressions of the sources    *)

\* p occurs in s at position i
OccursAt(s, p, i) == i + Len(p) - 1 <= Len(s) /\ SubSeq(s, i, i + Len(p) - 1) = p

\* the first position >= i at which p occurs in s, or 0
RECURSIVE IndexFrom(_, _, _)
IndexFrom(s, p, i) ==
    IF i + Len(p) - 1 > Len(s) THEN 0
    ELSE IF SubSeq(s, i, i + Len(p) - 1) = p THEN i
    ELSE IndexFrom(s, p, i + 1)

\* the code fence of the regular expression, as the texts here write it
Fence == "~~~"

\* .replace(/<fence>[\s\S]*?<fence>/g, "") on the part of s from position i:
\* each fence up to the next fence goes
RECURSIVE RemoveCodeBlocksFrom(_, _)
RemoveCodeBlocksFrom(s, i) ==
    LET open == IndexFrom(s, Fence, i)
        close == IF open = 0 THEN 0 ELSE IndexFrom(s, Fence, open + 3)
    IN  IF close = 0 THEN SubSeq(s, i, Len(s))
        ELSE SubSeq(s, i, open - 1) \o RemoveCodeBlocksFrom(s, close + 3)

RemoveCodeBlocks(s) == RemoveCodeBlocksFrom(s, 1)

\* the end of an image ![alt](target) that starts at i, or 0 if none does
ImageEnd(s, i) ==
    LET bracket == IndexFrom(s, "]", i + 2)
        paren == IF bracket = 0 THEN 0 ELSE IndexFrom(s, ")", bracket + 2)
    IN  IF OccursAt(s, "![", i) /\ bracket # 0
           /\ OccursAt(s, "](", bracket) /\ paren > bracket + 2
        THEN paren
        ELSE 0

\* .replace(/!\[([^\]]*)\]\([^)]+\)/g, "") on the part of s from position i
RECURSIVE RemoveImagesFrom(_, _)
RemoveImagesFrom(s, i) ==
    IF i > Len(s) THEN ""
    ELSE IF ImageEnd(s, i) # 0 THEN RemoveImagesFrom(s, ImageEnd(s, i) + 1)
    ELSE CharAt(s, i) \o RemoveImagesFrom(s, i + 1)

RemoveImages(s) == RemoveImagesFrom(s, 1)

\* the length of the run of newlines of s that starts at position i
RECURSIVE NewlineRun(_, _)
NewlineRun(s, i) ==
    IF i <= Len(s) /\ CharAt(s, i) = "\n" THEN 1 + NewlineRun(s, i + 1) ELSE 0

\* .replace(/\n{3,}/g, "\n\n") on the part of s from position i
RECURSIVE CollapseNewlinesFrom(_, _)
CollapseNewlinesFrom(s, i) ==
    IF i > Len(s) THEN ""
    ELSE IF NewlineRun(s, i) >= 3
         THEN "\n\n" \o CollapseNewlinesFrom(s, i + NewlineRun(s, i))
    ELSE CharAt(s, i) \o CollapseNewlinesFrom(s, i + 1)

CollapseNewlines(s) == CollapseNewlinesFrom(s, 1)


-----------------------------------------------------------------------------
(* Snippets and anchors: generateSlug, findNearestHeading, createSnippet   *)

\* the backquote, as the texts here write it (a code fence is three of them)
Tick == "~"

\* null, as the anchor of a result
Null == "<null>"

\* s.toLowerCase() over the part of s from position i
RECURSIVE LowerFrom(_, _)
LowerFrom(s, i) ==
    IF i > Len(s) THEN "" ELSE LowerChar(CharAt(s, i)) \o LowerFrom(s, i + 1)

\* s.indexOf(p): the offset of the first occurrence, or -1
indexOf(s, p) == IndexFrom(s, p, 1) - 1

\* the number of # characters in a row from position i
RECURSIVE HashRun(_, _)
HashRun(s, i) ==
    IF i <= Len(s) /\ CharAt(s, i) = "#" THEN 1 + HashRun(s, i + 1) ELSE 0

\* /#{1,6}\s/ matches at position i
HeaderMarkAt(s, i) ==
    /\ CharAt(s, i) = "#"
    /\ HashRun(s, i) <= 6
    /\ i + HashRun(s, i) <= Len(s)
    /\ IsSpace(CharAt(s, i + HashRun(s, i)))

\* .replace(/#{1,6}\s/g, "") on the part of s from position i
RECURSIVE RemoveHeaderMarksFrom(_, _)
RemoveHeaderMarksFrom(s, i) ==
    IF i > Len(s) THEN ""
    ELSE IF HeaderMarkAt(s, i) THEN RemoveHeaderMarksFrom(s, i + HashRun(s, i) + 1)
    ELSE CharAt(s, i) \o RemoveHeaderMarksFrom(s, i + 1)

\* where the closing mark of /mark([^c]+)mark/ starts for a match at
\* position i, c being the character the mark is made of; 0 if none matches
ClosingMark(s, mark, i) ==
    LET start == i + Len(mark)
        close == IF start + 1 > Len(s) THEN 0 ELSE IndexFrom(s, CharAt(mark, 1), start + 1)
    IN  IF OccursAt(s, mark, i) /\ start <= Len(s) /\ CharAt(s, start) # CharAt(mark, 1)
           /\ close # 0 /\ OccursAt(s, mark, close)
        THEN close
        ELSE 0

\* .replace(/mark([^c]+)mark/g, "$1") on the part of s from position i
RECURSIVE UnwrapFrom(_, _, _)
UnwrapFrom(s, mark, i) ==
    IF i > Len(s) THEN ""
    ELSE IF ClosingMark(s, mark, i) # 0
    THEN SubSeq(s, i + Len(mark), ClosingMark(s, mark, i) - 1)
             \o UnwrapFrom(s, mark, ClosingMark(s, mark, i) + Len(mark))
    ELSE CharAt(s, i) \o UnwrapFrom(s, mark, i + 1)

\* .replace(/\*\*([^*]+)\*\*/g, "$1")
UnwrapBold(s) == UnwrapFrom(s, "**", 1)

\* .replace(/\*([^*]+)\*/g, "$1")
UnwrapItalic(s) == UnwrapFrom(s, "*", 1)

\* .replace(/<tick>([^<tick>]+)<tick>/g, "$1")
UnwrapInlineCode(s) == UnwrapFrom(s, Tick, 1)

\* the ] that ends the label of a link [label](target) starting at i, or 0
LinkLabelEnd(s, i) ==
    LET bracket == IF i + 2 > Len(s) THEN 0 ELSE IndexFrom(s, "]", i + 2)
    IN  IF CharAt(s, i) = "[" /\ CharAt(s, i + 1) # "]" /\ bracket # 0
           /\ OccursAt(s, "](", bracket)
           /\ bracket + 2 <= Len(s) /\ CharAt(s, bracket + 2) # ")"
           /\ bracket + 3 <= Len(s) /\ IndexFrom(s, ")", bracket + 3) # 0
        THEN bracket
        ELSE 0

\* .replace(/\[([^\]]+)\]\([^)]+\)/g, "$1") on the part of s from position i
RECURSIVE ReplaceLinksFrom(_, _)
ReplaceLinksFrom(s, i) ==
    IF i > Len(s) THEN ""
    ELSE IF i < Len(s) /\ LinkLabelEnd(s, i) # 0
    THEN SubSeq(s, i + 1, LinkLabelEnd(s, i) - 1)
             \o ReplaceLinksFrom(s, IndexFrom(s, ")", LinkLabelEnd(s, i) + 3) + 1)
    ELSE CharAt(s, i) \o ReplaceLinksFrom(s, i + 1)

ReplaceLinks(s) == ReplaceLinksFrom(s, 1)

\* .replace(/[chars]+/g, by) on the part of s from position i
RECURSIVE ReplaceRunsFrom(_, _, _, _)
ReplaceRunsFrom(s, chars, by, i) ==
    IF i > Len(s) THEN ""
    ELSE IF CharAt(s, i) \in chars
    THEN (IF i > 1 /\ CharAt(s, i - 1) \in chars THEN "" ELSE by)
             \o ReplaceRunsFrom(s, chars, by, i + 1)
    ELSE CharAt(s, i) \o ReplaceRunsFrom(s, chars, by, i + 1)

SpaceChars == {" ", "\t", "\n", "\r"}

\* the chain of replaces that makes cleanContent in both createSnippet
\* functions, each replace applied to the result of the one before
stripMarkdown(content) ==
    CHOOSE cleaned \in
        {trim(ReplaceRunsFrom(spaced, SpaceChars, " ", 1)) :
          spaced \in {ReplaceRunsFrom(noImages, {"\n"}, " ", 1) :
            noImages \in {RemoveImages(noLinks) :
              noLinks \in {ReplaceLinks(noBlocks) :
                noBlocks \in {RemoveCodeBlocks(noCode) :
                  noCode \in {UnwrapInlineCode(noItalic) :
                    noItalic \in {UnwrapItalic(noBold) :
                      noBold \in {UnwrapBold(noHeaders) :
                        noHeaders \in {RemoveHeaderMarksFrom(content, 1)}}}}}}}}} : TRUE

\* the characters [a-z0-9\s-] keeps
SlugChars ==
    {CharAt(LowerLetters, i) : i \in 1..Len(LowerLetters)}
        \cup {CharAt(DigitChars, i) : i \in 1..Len(DigitChars)}
        \cup SpaceChars \cup {"-"}

\* .replace(/[^a-z0-9\s-]/g, "") on the part of s from position i
RECURSIVE KeepSlugCharsFrom(_, _)
KeepSlugCharsFrom(s, i) ==
    IF i > Len(s) THEN ""
    ELSE (IF CharAt(s, i) \in SlugChars THEN CharAt(s, i) ELSE "")
             \o KeepSlugCharsFrom(s, i + 1)

\* generateSlug(text)
generateSlug(text) ==
    CHOOSE slug \in
        {trim(ReplaceRunsFrom(dashed, {"-"}, "-", 1)) :
          dashed \in {ReplaceRunsFrom(kept, SpaceChars, "-", 1) :
            kept \in {KeepSlugCharsFrom(lower, 1) :
              lower \in {LowerFrom(text, 1)}}}} : TRUE

\* the line of s that starts at position b
LineAt(s, b) ==
    SubSeq(s, b, IF IndexFrom(s, "\n", b) = 0 THEN Len(s) ELSE IndexFrom(s, "\n", b) - 1)

\* line.match(/^(#{1,6})\s+(.+)$/)
IsHeadingLine(line) ==
    /\ HashRun(line, 1) \in 1..6
    /\ HashRun(line, 1) + 2 <= Len(line)
    /\ IsSpace(CharAt(line, HashRun(line, 1) + 1))

\* headingMatch[2].trim()
HeadingText(line) == trim(SubSeq(line, HashRun(line, 1) + 2, Len(line)))

\* the positions (from 1) at which a heading line of content starts
HeadingStarts(content) ==
    {b \in 1..Len(content) :
        /\ b = 1 \/ CharAt(content, b - 1) = "\n"
        /\ \E line \in {LineAt(content, b)} : IsHeadingLine(line)}

Greatest(S) == CHOOSE x \in S : \A y \in S : y <= x

\* findNearestHeading(content, matchPosition): nearestHeading?.id || null
findNearestHeading(content, matchPosition) ==
    CHOOSE found \in
        {IF before = {} THEN Null
         ELSE CHOOSE anchor \in
                {IF id = "" THEN Null ELSE id :
                    id \in {generateSlug(HeadingText(LineAt(content, Greatest(before))))}} : TRUE :
            before \in {{b \in HeadingStarts(content) : b - 1 <= matchPosition}}} : TRUE

\* the smaller and the greater of two numbers
Min2(a, b) == IF a < b THEN a ELSE b
Max2(a, b) == IF a > b THEN a ELSE b

\* the end of createSnippet: the window around the term in cleanContent
SnippetAround(cleanContent, index, maxLength, anchor) ==
    IF index = -1
    THEN [snippet |-> SliceTo(cleanContent, maxLength)
                          \o (IF Len(cleanContent) > maxLength THEN "..." ELSE ""),
          anchor |-> Null,
          clean |-> cleanContent]
    ELSE LET start == Max2(0, index - (maxLength \div 3))
             end == Min2(Len(cleanContent), start + maxLength)
         IN  [snippet |-> (IF start > 0 THEN "..." ELSE "")
                              \o SubSeq(cleanContent, start + 1, end)
                              \o (IF end < Len(cleanContent) THEN "..." ELSE ""),
              anchor |-> anchor,
              clean |-> cleanContent]

\* createSnippet of search.ts; clean is the cleanContent the snippet is cut
\* from, originalIndex the offset of the term in the content as given
createSnippetOf(content, lowerSearchTerm, maxLength) ==
    CHOOSE made \in
        UNION {{[snippet |-> around.snippet, anchor |-> around.anchor,
                 clean |-> around.clean, originalIndex |-> originalIndex] :
                  around \in {SnippetAround(cleanContent,
                                  indexOf(LowerFrom(cleanContent, 1), lowerSearchTerm),
                                  maxLength,
                                  IF originalIndex # -1
                                  THEN findNearestHeading(content, originalIndex)
                                  ELSE Null)}} :
               cleanContent \in {stripMarkdown(content)},
               originalIndex \in {indexOf(LowerFrom(content, 1), lowerSearchTerm)}} : TRUE

-----------------------------------------------------------------------------
(* HTTP responses of the blob gateway                                      *)

StatusText(status) ==
    CASE status = 200 -> "OK"
      [] status = 401 -> "Unauthorized"
      [] status = 403 -> "Forbidden"
      [] status = 404 -> "Not Found"
      [] status = 429 -> "Too Many Requests"
      [] status = 500 -> "Internal Server Error"

\* fetch() rejected (or reading the body rejected): a transport failure
Threw(m) == [kind |-> "throw", status |-> 0, body |-> "", message |-> m]

\* fetch() resolved with a Response
Http(s, b) == [kind |-> "http", status |-> s, body |-> b, message |-> ""]

\* Response.ok with the lower end of the 2xx range excluded
ResponseOk_Above200(r) == r.kind = "http" /\ r.status > 200 /\ r.status <= 299

\* Response.ok
ResponseOk(r) == r.kind = "http" /\ r.status >= 200 /\ r.status <= 299

TransportErrors == {"fetch failed", "socket hang up"}
FailureStatuses == {401, 403, 404, 429, 500}
Bodies == {"alpha", "beta"}

Responses ==
    {Threw(m) : m \in TransportErrors}
        \cup {Http(s, "") : s \in FailureStatuses}
        \cup {Http(200, b) : b \in Bodies}

\* what a failed attempt says about itself: the thrown message, or
\* `${response.status} ${response.statusText}`
FailureDetail(r) ==
    IF r.kind = "throw" THEN r.message
    ELSE ToString(r.status) \o " " \o StatusText(r.status)

-----------------------------------------------------------------------------
(* Content Gateway Client                                                  *)

publicGatewayBase == "https://gateway.pinata.cloud"

FetchFailedPrefix == "Failed to fetch content from IPFS: "

\* semanticSearch / embeddings copy: a value that already has a scheme is
\* used as it is
getIPFSGatewayUrl(env) ==
    IF env # ""
    THEN IF StartsWith(env, "http://") \/ StartsWith(env, "https://")
         THEN env
         ELSE "https://" \o env
    ELSE "https://gateway.pinata.cloud"

\* rss copy: the scheme is always prefixed
getIPFSGatewayUrlRss(env) ==
    IF env # "" THEN "https://" \o env ELSE "https://gateway.pinata.cloud"

GatewayBaseOf(variant, env) ==
    IF variant = "rss" THEN getIPFSGatewayUrlRss(env) ELSE getIPFSGatewayUrl(env)

\* The network: net.public[k] is the public gateway's answer to the k-th
\* request it receives during the call, net.custom[k] that of any other host.
HostOf(base) == IF base = publicGatewayBase THEN "public" ELSE "custom"

RequestsTo(log, host) == Cardinality({i \in 1..Len(log) : log[i].host = host})

\* await fetch(url): the reply, and the request log with this request added
Fetch(net, log, base, cid) ==
    LET host == HostOf(base)
        k    == RequestsTo(log, host) + 1
        reply == net[host][k]
    IN  [reply |-> reply,
         log   |-> Append(log, [host  |-> host,
                                url   |-> base \o "/ipfs/" \o cid,
                                reply |-> reply])]

Returned(value, log) == [ok |-> TRUE, value |-> value, error |-> "", requests |-> log]
Thrown(message, log) == [ok |-> FALSE, value |-> "", error |-> message, requests |-> log]

\* the statuses on which the try block itself asks the public gateway
RetryStatuses == {403, 401, 429}

\* the try block: fetch the configured gateway; on 403/401/429 fetch the
\* public gateway right there.  Every throw in it lands in the catch block.
TryBlock(net, gatewayBase, cid) ==
    LET first == Fetch(net, <<>>, gatewayBase, cid)
        response == first.reply
    IN  IF response.kind = "throw" THEN Thrown(response.message, first.log)
        ELSE IF ~ResponseOk(response)
        THEN IF response.status \in RetryStatuses
             THEN LET second == Fetch(net, first.log, publicGatewayBase, cid)
                      fallbackResponse == second.reply
                  IN  IF fallbackResponse.kind = "throw"
                      THEN Thrown(fallbackResponse.message, second.log)
                      ELSE IF ~ResponseOk(fallbackResponse)
                      THEN Thrown(FetchFailedPrefix \o FailureDetail(fallbackResponse),
                                  second.log)
                      ELSE Returned(fallbackResponse.body, second.log)
             ELSE Thrown(FetchFailedPrefix \o FailureDetail(response), first.log)
        ELSE Returned(response.body, first.log)

\* the catch block: `caught` is whatever the try block threw
CatchBlock(net, gatewayBase, cid, caught) ==
    IF gatewayBase # publicGatewayBase
    THEN LET again == Fetch(net, caught.requests, publicGatewayBase, cid)
             fallbackResponse == again.reply
         IN  IF ResponseOk(fallbackResponse)
             THEN Returned(fallbackResponse.body, again.log)
             ELSE Thrown(FetchFailedPrefix \o caught.error, again.log)
    ELSE Thrown(FetchFailedPrefix \o caught.error, caught.requests)

CidRequired == "CID is required to fetch content from IPFS"

\* the client without any fallback hop: the configured gateway only
fetchContentFromIPFS_PrimaryOnly(net, gatewayBase, cid) ==
    IF cid = "" THEN Thrown(CidRequired, <<>>)
    ELSE LET first == Fetch(net, <<>>, gatewayBase, cid)
         IN  IF ResponseOk(first.reply)
             THEN Returned(first.reply.body, first.log)
             ELSE Thrown(FetchFailedPrefix \o FetchFailedPrefix
                             \o FailureDetail(first.reply), first.log)

fetchContentFromIPFS(net, gatewayBase, cid) ==
    IF cid = "" THEN Thrown(CidRequired, <<>>)
    ELSE LET tried == TryBlock(net, gatewayBase, cid)
         IN  IF tried.ok THEN tried
             ELSE CatchBlock(net, gatewayBase, cid, tried)

-----------------------------------------------------------------------------
(* Documents and the store                                                 *)

Titles == {"Intro to Caching", "Notes to Self", "Reaching Out"}

\* posts carry a description, pages an optional excerpt ("" when absent)
DescriptionOf(title) ==
    CASE title = "Intro to Caching" -> "Why caches help"
      [] title = "Notes to Self" -> "Loose notes"
      [] title = "Reaching Out" -> ""

\* what the content addresses of the store resolve to (a code fence, three
\* backquotes in markdown, is written ~~~ in these texts)
ContentOf(cid) ==
    CASE cid = "QmCache" -> "# Caching\nHow to cache pages."
      [] cid = "QmNotes" -> "Plain notes."
      [] cid = "QmLimited" -> "Cached copy"
      [] cid = "QmDown" -> "Lost caching text"
      [] cid = "QmDocs" -> "Setup\n\n\n\n~~~sh\nrun\n~~~\n![logo](l.png) done\n"

\* how the configured (custom) gateway and the public gateway answer for
\* each content address; a 200 carries the addressed content
CustomReply(cid) ==
    CASE cid = "QmCache" -> Http(200, ContentOf(cid))
      [] cid = "QmNotes" -> Http(200, ContentOf(cid))
      [] cid = "QmLimited" -> Http(429, "")
      [] cid = "QmDown" -> Http(500, "")
      [] cid = "QmDocs" -> Http(200, ContentOf(cid))

PublicReply(cid) ==
    CASE cid = "QmCache" -> Http(200, ContentOf(cid))
      [] cid = "QmNotes" -> Http(200, ContentOf(cid))
      [] cid = "QmLimited" -> Http(200, ContentOf(cid))
      [] cid = "QmDown" -> Threw("fetch failed")
      [] cid = "QmDocs" -> Http(200, ContentOf(cid))

NetFor(cid) ==
    [custom |-> <<CustomReply(cid)>>, public |-> <<PublicReply(cid), PublicReply(cid)>>]

Template(title, cid, published, unlisted) ==
    [title |-> title, contentCid |-> cid, published |-> published, unlisted |-> unlisted]

ListedTemplates ==
    {Template("Intro to Caching", "QmCache", TRUE, FALSE),
     Template("Intro to Caching", "QmNotes", TRUE, FALSE),
     Template("Notes to Self", "QmCache", TRUE, FALSE),
     Template("Notes to Self", "QmLimited", TRUE, FALSE),
     Template("Reaching Out", "QmDown", TRUE, FALSE),
     Template("Reaching Out", "QmCache", TRUE, FALSE)}

PostTemplates ==
    ListedTemplates \cup
    {Template("Intro to Caching", "QmCache", FALSE, FALSE),
     Template("Intro to Caching", "QmCache", TRUE, TRUE),
     Template("Notes to Self", "QmCache", TRUE, TRUE)}

PageTemplates ==
    ListedTemplates \cup {Template("Intro to Caching", "QmCache", FALSE, FALSE)}

DocTemplates ==
    {[kind |-> "post", t |-> t] : t \in PostTemplates}
        \cup {[kind |-> "page", t |-> t] : t \in PageTemplates}

\* the i-th document of a table
Doc(kind, i, t) ==
    [_id |-> <<kind, i>>,
     type |-> kind,
     slug |-> kind \o "-" \o ToString(i),
     title |-> t.title,
     description |-> DescriptionOf(t.title),
     excerpt |-> DescriptionOf(t.title),
     contentCid |-> t.contentCid,
     published |-> t.published,
     unlisted |-> t.unlisted]

Table(kind, templates) == [i \in 1..Len(templates) |-> Doc(kind, i, templates[i])]

Repeat(t, n) == [i \in 1..n |-> t]

SeqsUpTo(S, n) == UNION {[1..k -> S] : k \in 0..n}

OfKind(choices, kind) ==
    LET picked == SelectSeq(choices, LAMBDA c : c.kind = kind)
    IN  [i \in 1..Len(picked) |-> picked[i].t]

\* small stores: up to MaxSmallDocs documents, each of any kind and template
MaxSmallDocs == 2

SmallStores ==
    {[posts |-> Table("post", OfKind(choices, "post")),
      pages |-> Table("page", OfKind(choices, "page"))] :
        choices \in SeqsUpTo(DocTemplates, MaxSmallDocs)}

\* large stores: around the per-kind cap of title retrieval, all documents of
\* a kind alike
titleTake == 10
maxResults == 15
BulkSlack == 1
BulkCounts == (titleTake - BulkSlack)..(titleTake + BulkSlack)

\* the templates large stores are filled with
BulkPostTemplates ==
    {Template("Intro to Caching", "QmCache", TRUE, FALSE),
     Template("Notes to Self", "QmLimited", TRUE, FALSE),
     Template("Reaching Out", "QmCache", TRUE, FALSE),
     Template("Notes to Self", "QmCache", TRUE, TRUE)}

BulkPageTemplates ==
    {Template("Intro to Caching", "QmNotes", TRUE, FALSE),
     Template("Notes to Self", "QmCache", TRUE, FALSE),
     Template("Notes to Self", "QmLimited", TRUE, FALSE),
     Template("Intro to Caching", "QmCache", FALSE, FALSE)}

BulkStores ==
    {[posts |-> Table("post", Repeat(p, n)), pages |-> Table("page", Repeat(g, m))] :
        p \in BulkPostTemplates, g \in BulkPageTemplates,
        n \in BulkCounts, m \in BulkCounts}

\* stores whose posts table holds unlisted posts around the cap of title
\* retrieval and, after them, one listed post with a title of the same words
CrowdedStores ==
    {[posts |-> Table("post",
                    Repeat(Template("Intro to Caching", "QmCache", TRUE, TRUE), n)
                        \o <<Template("Intro to Caching", "QmNotes", TRUE, FALSE)>>),
      pages |-> Table("page", <<>>)] :
        n \in BulkCounts}

Stores == SmallStores \cup BulkStores \cup CrowdedStores

-----------------------------------------------------------------------------
(* Title index (store: withSearchIndex("search_title"))                    *)

IsWordChar(c) == InAlphabet(c, LowerLetters) \/ InAlphabet(c, DigitChars)

\* the index's terms of a text: its lower-cased maximal alphanumeric runs
RECURSIVE WordsFrom(_, _, _)
WordsFrom(s, i, word) ==
    IF i > Len(s) THEN (IF word = "" THEN <<>> ELSE <<word>>)
    ELSE IF IsWordChar(CharAt(s, i))
         THEN WordsFrom(s, i + 1, word \o CharAt(s, i))
         ELSE (IF word = "" THEN <<>> ELSE <<word>>) \o WordsFrom(s, i + 1, "")

Words(s) == WordsFrom(toLowerCase(s), 1, "")

\* q.search("title", query): some term of the query is a word of the title,
\* the last term of the query matching as a prefix
TitleIndexMatches(title, query) ==
    LET terms == Words(query)
        words == Words(title)
    IN  \E k \in 1..Len(terms) : \E j \in 1..Len(words) :
            IF k = Len(terms) THEN StartsWith(words[j], terms[k])
            ELSE words[j] = terms[k]

Queries == {"", " \t", "Cach", "to cach", "ach"}

TitleIndexTable == [t \in Titles, q \in Queries |-> TitleIndexMatches(t, q)]

\* .withSearchIndex(...search("title", query).eq("published", true)): the
\* published documents of the table whose title matches, in relevance order;
\* `order` says how the index ranks them
SearchIndex(table, query, order) ==
    LET hits == SelectSeq(table,
                    LAMBDA d : d.published /\ TitleIndexTable[d.title, query])
    IN  IF order = "reverse" THEN Reverse(hits) ELSE hits

IndexOrders == {"table", "reverse"}

-----------------------------------------------------------------------------
(* searchTitleOnly                                                         *)

Undefined == "<undefined>"

\* description.slice(0, 120) + (description.length > 120 ? "..." : "")
LeadOf(text) == SliceTo(text, 120) \o (IF Len(text) > 120 THEN "..." ELSE "")

PostTitleResult(post) ==
    [_id |-> post._id,
     type |-> "post",
     slug |-> post.slug,
     title |-> post.title,
     description |-> post.description,
     snippet |-> IF post.description # "" THEN LeadOf(post.description) ELSE "",
     anchor |-> Undefined]

PageTitleResult(page) ==
    [_id |-> page._id,
     type |-> "page",
     slug |-> page.slug,
     title |-> page.title,
     description |-> Undefined,
     snippet |-> IF page.excerpt # "" THEN LeadOf(page.excerpt) ELSE page.title,
     anchor |-> Undefined]

\* the loop over postsByTitle: skip ids seen before, skip unlisted posts
RECURSIVE PostTitleLoop(_, _)
PostTitleLoop(postsByTitle, seenPostIds) ==
    IF postsByTitle = <<>> THEN <<>>
    ELSE LET post == Head(postsByTitle)
         IN  IF post._id \in seenPostIds
             THEN PostTitleLoop(Tail(postsByTitle), seenPostIds)
             ELSE IF post.unlisted
             THEN PostTitleLoop(Tail(postsByTitle), seenPostIds \cup {post._id})
             ELSE <<PostTitleResult(post)>>
                      \o PostTitleLoop(Tail(postsByTitle), seenPostIds \cup {post._id})

RECURSIVE PageTitleLoop(_, _)
PageTitleLoop(pagesByTitle, seenPageIds) ==
    IF pagesByTitle = <<>> THEN <<>>
    ELSE LET page == Head(pagesByTitle)
         IN  IF page._id \in seenPageIds
             THEN PageTitleLoop(Tail(pagesByTitle), seenPageIds)
             ELSE <<PageTitleResult(page)>>
                      \o PageTitleLoop(Tail(pagesByTitle), seenPageIds \cup {page._id})

\* a.title.toLowerCase().includes(queryLower)
InTitle(title, query) == Includes(toLowerCase(title), toLowerCase(query))

InTitleTable == [t \in Titles, q \in Queries |-> InTitle(t, q)]

\* results left in the order they were gathered in
SortTitleFirst_None(results, query) == results

\* results.sort(...): results whose title contains the query first
SortTitleFirst(results, query) ==
    LET keyed == [i \in 1..Len(results) |->
                    [key |-> IF InTitleTable[results[i].title, query] THEN 0 ELSE 1,
                     item |-> results[i]]]
        sorted == StableSort(keyed)
    IN  [i \in 1..Len(sorted) |-> sorted[i].item]

\* the candidates of searchTitleOnly before the sort
TitleCandidates(store, query, order) ==
    LET postsByTitle == Take(SearchIndex(store.posts, query, order), titleTake)
        pagesByTitle == Take(SearchIndex(store.pages, query, order), titleTake)
    IN  PostTitleLoop(postsByTitle, {}) \o PageTitleLoop(pagesByTitle, {})

searchTitleOnly(store, query, order) ==
    IF trim(query) = "" THEN <<>>
    ELSE Take(SortTitleFirst(TitleCandidates(store, query, order), query), maxResults)

-----------------------------------------------------------------------------
(* search: title results, then content retrieval through the gateway       *)

\* search.ts's getIPFSGatewayUrl: the host always gets the https:// prefix
searchGetIPFSGatewayUrl(env) ==
    IF env # "" THEN "https://" \o env ELSE publicGatewayBase

\* search.ts's copy of the gateway client: the configured gateway only; the
\* error thrown in the try block is wrapped again by its catch block
searchFetchContentFromIPFS(net, gatewayBase, cid) ==
    IF cid = "" THEN Thrown(CidRequired, <<>>)
    ELSE LET first == Fetch(net, <<>>, gatewayBase, cid)
             response == first.reply
         IN  IF response.kind = "throw"
             THEN Thrown(FetchFailedPrefix \o response.message, first.log)
             ELSE IF ~ResponseOk(response)
             THEN Thrown(FetchFailedPrefix \o FetchFailedPrefix
                             \o FailureDetail(response), first.log)
             ELSE Returned(response.body, first.log)

\* api.posts.getAllPosts / api.pages.getAllPages: the published documents
getAllPublished(table) == SelectSeq(table, LAMBDA d : d.published)

\* api.posts.getPostBySlug / api.pages.getPageBySlug: the published document
\* with that slug, or null
NullDoc == [_id |-> <<"null", 0>>, contentCid |-> ""]

getBySlug(table, slug) ==
    LET found == SelectSeq(table, LAMBDA d : d.published /\ d.slug = slug)
    IN  IF found = <<>> THEN NullDoc ELSE found[1]

\* query.toLowerCase().split(/\s+/).filter((t) => t.length > 2)
SearchTerms(query) ==
    SelectSeq(splitWhitespace(toLowerCase(query)), LAMBDA t : Len(t) > 2)

\* contentLower.includes(queryLower) || searchTerms.some(...)
MatchesInContent(content, query) ==
    LET contentLower == toLowerCase(content)
        searchTerms == SearchTerms(query)
    IN  \/ Includes(contentLower, toLowerCase(query))
        \/ \E k \in 1..Len(searchTerms) : Includes(contentLower, searchTerms[k])

ContentCids == {"QmCache", "QmNotes", "QmLimited", "QmDown"}

MatchTable ==
    [c \in ContentCids, q \in Queries |-> MatchesInContent(ContentOf(c), q)]

\* createSnippet(content, searchTerm, maxLength)
createSnippet(content, searchTerm, maxLength) ==
    CHOOSE made \in
        UNION {{[snippet |-> of.snippet, anchor |-> of.anchor] :
                  of \in {createSnippetOf(text, lowerSearchTerm, maxLength)}} :
               text \in {content},
               lowerSearchTerm \in {LowerFrom(searchTerm, 1)}} : TRUE

\* the bodies the gateways of the fixtures serve
ServedBodies == {ContentOf(c) : c \in ContentCids \cup {"QmDocs"}}

\* createSnippet(content, args.query, 150), evaluated once for each body and
\* query of the fixtures
SnippetTable ==
    [content \in ServedBodies, query \in Queries |-> createSnippet(content, query, 150)]

ContentResult(doc, content, query) ==
    CHOOSE result \in
        {[_id |-> doc._id,
          type |-> doc.type,
          slug |-> doc.slug,
          title |-> doc.title,
          description |-> IF doc.type = "post" THEN doc.description ELSE Undefined,
          snippet |-> snippetResult.snippet,
          anchor |-> snippetResult.anchor] :
            snippetResult \in {SnippetTable[content, query]}} : TRUE

\* addedIds.has(doc._id) with every id taken as new
AlreadyAdded_Never(addedIds, id) == FALSE

\* addedIds.has(doc._id)
AlreadyAdded(addedIds, id) == id \in addedIds

\* a failed fetch ends the loop
RemainingAfter_Abort(got, rest) == IF got.ok THEN rest ELSE <<>>

\* what the loop goes on with after the fetch: the catch block logs a failed
\* fetch and the loop continues with the next document
RemainingAfter(got, rest) == rest

\* one pass of a content loop (posts, then pages) over `docs`; acc holds the
\* results so far, addedIds, and the ids whose body was requested
RECURSIVE ContentLoop(_, _, _, _, _)
ContentLoop(docs, table, query, gatewayBase, acc) ==
    IF docs = <<>> THEN acc
    ELSE LET doc == Head(docs)
             rest == Tail(docs)
         IN  IF AlreadyAdded(acc.addedIds, doc._id) \/ (doc.type = "post" /\ doc.unlisted)
             THEN ContentLoop(rest, table, query, gatewayBase, acc)
             ELSE LET full == getBySlug(table, doc.slug)
                  IN  IF full = NullDoc \/ full.contentCid = ""
                      THEN ContentLoop(rest, table, query, gatewayBase, acc)
                      ELSE LET got == searchFetchContentFromIPFS(
                                          NetFor(full.contentCid), gatewayBase,
                                          full.contentCid)
                               fetched == acc.fetched \cup {doc._id}
                           IN  IF got.ok /\ MatchTable[full.contentCid, query]
                               THEN ContentLoop(rest, table, query, gatewayBase,
                                        [results |-> Append(acc.results,
                                                        ContentResult(doc, got.value, query)),
                                         addedIds |-> acc.addedIds \cup {doc._id},
                                         fetched |-> fetched])
                               ELSE ContentLoop(RemainingAfter(got, rest), table, query,
                                        gatewayBase,
                                        [acc EXCEPT !.fetched = fetched])

IdsOf(results) == {results[i]._id : i \in 1..Len(results)}

\* everything search gathers before its sort
SearchCandidates(store, query, order, gatewayBase) ==
    LET titleResults == searchTitleOnly(store, query, order)
        start == [results |-> titleResults,
                  addedIds |-> IdsOf(titleResults),
                  fetched |-> {}]
        afterPosts == ContentLoop(getAllPublished(store.posts), store.posts,
                                  query, gatewayBase, start)
    IN  ContentLoop(getAllPublished(store.pages), store.pages,
                    query, gatewayBase, afterPosts)

search(store, query, order, gatewayBase) ==
    IF trim(query) = "" THEN <<>>
    ELSE Take(SortTitleFirst(SearchCandidates(store, query, order, gatewayBase).results,
                             query),
              maxResults)

-----------------------------------------------------------------------------
(* semanticSearch                                                          *)

\* JSON values of the embedding provider's response body
JNum(x) == [t |-> "number", v |-> x, items |-> <<>>, fields |-> <<>>]
JArr(items) == [t |-> "array", v |-> 0, items |-> items, fields |-> <<>>]
JObj(fields) == [t |-> "object", v |-> 0, items |-> <<>>, fields |-> fields]
JNull == [t |-> "null", v |-> 0, items |-> <<>>, fields |-> <<>>]
JUndefined == [t |-> "undefined", v |-> 0, items |-> <<>>, fields |-> <<>>]

\* the vector index's dimension, scaled down
EmbeddingDim == 3

FlatVector(n) == JArr([i \in 1..n |-> JNum(i)])

\* Array.isArray
IsArray(j) == j.t = "array"

\* j[0]
FirstOf(j) ==
    IF j.t = "array" /\ j.items # <<>> THEN j.items[1] ELSE JUndefined

\* j.embeddings
EmbeddingsOf(j) ==
    IF j.t = "object" /\ \E k \in 1..Len(j.fields) : j.fields[k][1] = "embeddings"
    THEN j.fields[CHOOSE k \in 1..Len(j.fields) : j.fields[k][1] = "embeddings"][2]
    ELSE JUndefined

\* truthiness of a JSON value that is no string, number or boolean here
Truthy(j) == j.t \in {"array", "object"}

\* what the provider can answer to the POST
ProviderThrew == [kind |-> "throw", status |-> 0, json |-> JUndefined]
ProviderHttp(status, json) == [kind |-> "http", status |-> status, json |-> json]

ProviderReplies ==
    {ProviderThrew,
     ProviderHttp(503, JUndefined),
     ProviderHttp(200, FlatVector(EmbeddingDim)),
     ProviderHttp(200, FlatVector(EmbeddingDim - 1)),
     ProviderHttp(200, JArr(<<FlatVector(EmbeddingDim)>>)),
     ProviderHttp(200, JObj(<<<<"embeddings", JArr(<<FlatVector(EmbeddingDim)>>)>>>>)),
     ProviderHttp(200, JArr(<<>>)),
     ProviderHttp(200, JObj(<<<<"error", JNull>>>>)),
     ProviderHttp(200, JNull)}

\* the response-format chain: the extracted queryEmbedding, or the empty
\* list returned early, or the TypeError of indexing null
ExtractQueryEmbedding(responseData) ==
    IF IsArray(responseData)
    THEN [kind |-> "vector", vector |-> responseData]
    ELSE IF responseData.t \in {"null", "undefined"}
    THEN [kind |-> "throw", vector |-> JUndefined]
    ELSE IF IsArray(FirstOf(responseData))
    THEN [kind |-> "vector", vector |-> FirstOf(responseData)]
    ELSE IF Truthy(EmbeddingsOf(responseData)) /\ IsArray(FirstOf(EmbeddingsOf(responseData)))
    THEN [kind |-> "vector", vector |-> FirstOf(EmbeddingsOf(responseData))]
    ELSE [kind |-> "empty", vector |-> JUndefined]

\* ctx.vectorSearch accepts a flat array of numbers of the index's dimension
ValidVector(vector) ==
    /\ vector.t = "array"
    /\ Len(vector.items) = EmbeddingDim
    /\ \A i \in 1..Len(vector.items) : vector.items[i].t = "number"

vectorLimit == 10

\* ctx.vectorSearch(table, "by_embedding", {limit: 10, filter: published}):
\* `scoring` says how similar the index finds the documents, `view` whether
\* the index was read before a later unpublish ("stale") or not
ScoreOf(i, n, scoring) ==
    CASE scoring = "rising" -> i
      [] scoring = "falling" -> n + 1 - i
      [] scoring = "level" -> 1

vectorSearch(table, scoring, view) ==
    LET hits == SelectSeq(table, LAMBDA d : d.published \/ view = "stale")
        keyed == [i \in 1..Len(hits) |->
                    [key |-> 0 - ScoreOf(i, Len(hits), scoring),
                     item |-> [_id |-> hits[i]._id,
                               _score |-> ScoreOf(i, Len(hits), scoring)]]]
        ranked == StableSort(keyed)
    IN  Take([i \in 1..Len(ranked) |-> ranked[i].item], vectorLimit)

Scorings == {"rising", "falling", "level"}
IndexViews == {"current", "stale"}

\* ctx.db.get(id)
DocById(table, id) ==
    LET found == SelectSeq(table, LAMBDA d : d._id = id)
    IN  IF found = <<>> THEN NullDoc ELSE found[1]

\* fetchPostsByIds without its published / unlisted filter
fetchPostsByIds_Unfiltered(table, ids) ==
    LET docs == [i \in 1..Len(ids) |-> DocById(table, ids[i])]
    IN  SelectSeq(docs, LAMBDA doc : doc # NullDoc)

fetchPostsByIds(table, ids) ==
    LET docs == [i \in 1..Len(ids) |-> DocById(table, ids[i])]
    IN  SelectSeq(docs, LAMBDA doc : doc # NullDoc /\ doc.published /\ ~doc.unlisted)

fetchPagesByIds(table, ids) ==
    LET docs == [i \in 1..Len(ids) |-> DocById(table, ids[i])]
    IN  SelectSeq(docs, LAMBDA doc : doc # NullDoc /\ doc.published)

\* createSnippet(content, maxLength) of semanticSearch
createLeadSnippet(content, maxLength) ==
    CHOOSE snippet \in
        {IF Len(cleanContent) <= maxLength THEN cleanContent
         ELSE SliceTo(cleanContent, maxLength) \o "..." :
            cleanContent \in {stripMarkdown(text) : text \in {content}}} : TRUE

\* createSnippet(content, 150), evaluated once for each body of the fixtures
LeadSnippetTable == [content \in ServedBodies |-> createLeadSnippet(content, 150)]

SemanticResult(doc, kind, fallbackSnippet, gatewayBase, score) ==
    CHOOSE made \in
        {[_id |-> doc._id,
          type |-> kind,
          slug |-> doc.slug,
          title |-> doc.title,
          description |-> IF kind = "post" THEN doc.description ELSE Undefined,
          snippet |-> IF got.ok THEN LeadSnippetTable[got.value] ELSE fallbackSnippet,
          score |-> score] :
            got \in {fetchContentFromIPFS(NetFor(doc.contentCid), gatewayBase,
                                          doc.contentCid)}} : TRUE

\* the loop over postResults / pageResults: a hit whose document came back
\* from fetch...ByIds (and, for posts, is not unlisted) becomes a result
RECURSIVE SemanticLoop(_, _, _, _)
SemanticLoop(hits, docs, kind, gatewayBase) ==
    IF hits = <<>> THEN <<>>
    ELSE LET result == Head(hits)
             found == SelectSeq(docs, LAMBDA p : p._id = result._id)
         IN  IF found # <<>> /\ ~(kind = "post" /\ found[1].unlisted)
             THEN <<SemanticResult(found[1], kind,
                        IF kind = "post"
                        THEN (IF found[1].description # ""
                              THEN LeadOf(found[1].description) ELSE "")
                        ELSE found[1].title,
                        gatewayBase, result._score)>>
                      \o SemanticLoop(Tail(hits), docs, kind, gatewayBase)
             ELSE SemanticLoop(Tail(hits), docs, kind, gatewayBase)

\* results.sort((a, b) => b.score - a.score)
SortByScore(results) ==
    LET keyed == [i \in 1..Len(results) |->
                    [key |-> 0 - results[i].score, item |-> results[i]]]
        sorted == StableSort(keyed)
    IN  [i \in 1..Len(sorted) |-> sorted[i].item]

\* how a call of semanticSearch ends: the list it returns (with what it
\* gathered before the sort), or an error that leaves the handler
SemanticList(results, candidates, provider, index) ==
    [kind |-> "list", results |-> results, candidates |-> candidates,
     providerCalled |-> provider, vectorSearched |-> index]

SemanticThrow(provider, index) ==
    [kind |-> "throw", results |-> <<>>, candidates |-> <<>>,
     providerCalled |-> provider, vectorSearched |-> index]

SemanticCandidates(store, scoring, view, gatewayBase) ==
    LET postResults == vectorSearch(store.posts, scoring, view)
        pageResults == vectorSearch(store.pages, scoring, view)
        posts == fetchPostsByIds(store.posts,
                     [i \in 1..Len(postResults) |-> postResults[i]._id])
        pages == fetchPagesByIds(store.pages,
                     [i \in 1..Len(pageResults) |-> pageResults[i]._id])
    IN  SemanticLoop(postResults, posts, "post", gatewayBase)
            \o SemanticLoop(pageResults, pages, "page", gatewayBase)

\* !apiKey with the credential taken as present
CredentialMissing_Never(apiKey) == FALSE

\* !apiKey
CredentialMissing(apiKey) == apiKey = ""

semanticSearch(store, query, apiKey, reply, scoring, view, gatewayBase) ==
    IF trim(query) = "" THEN SemanticList(<<>>, <<>>, FALSE, FALSE)
    ELSE IF CredentialMissing(apiKey) THEN SemanticList(<<>>, <<>>, FALSE, FALSE)
    ELSE IF reply.kind # "http" THEN SemanticThrow(TRUE, FALSE)
    ELSE IF ~(reply.status >= 200 /\ reply.status <= 299)
    THEN SemanticList(<<>>, <<>>, TRUE, FALSE)
    ELSE LET extracted == ExtractQueryEmbedding(reply.json)
         IN  IF extracted.kind = "throw" THEN SemanticThrow(TRUE, FALSE)
             ELSE IF extracted.kind = "empty" THEN SemanticList(<<>>, <<>>, TRUE, FALSE)
             ELSE IF ~IsArray(extracted.vector) \/ Len(extracted.vector.items) = 0
             THEN SemanticList(<<>>, <<>>, TRUE, FALSE)
             ELSE IF ~ValidVector(extracted.vector) THEN SemanticThrow(TRUE, TRUE)
             ELSE LET candidates == SemanticCandidates(store, scoring, view, gatewayBase)
                  IN  SemanticList(Take(SortByScore(candidates), maxResults),
                                   candidates, TRUE, TRUE)

\* isSemanticSearchAvailable: !!process.env.HUGGINGFACE_API_KEY
isSemanticSearchAvailable(apiKey) == apiKey # ""

-----------------------------------------------------------------------------
(* Embedding pipeline: selection, text preparation, provider call, save    *)

\* const cleanContent = content.replace(...).replace(...).replace(...).trim(),
\* each replace applied to the result of the one before
cleanContent(content) ==
    CHOOSE cleaned \in
        {trim(collapsed) :
            collapsed \in {CollapseNewlines(plain) :
                plain \in {RemoveImages(prose) :
                    prose \in {RemoveCodeBlocks(content)}}}} : TRUE

prepareTextForEmbedding(title, content) ==
    title \o "\n\n" \o cleanContent(content)

embedLimit == 10
embedBudget == 2000

\* a JSON string
JStr == [t |-> "string", v |-> 0, items |-> <<>>, fields |-> <<>>]

\* provider responses to an embedding request: those of semantic search and
\* an array with a non-numeric element
EmbedReplies ==
    ProviderReplies \cup {ProviderHttp(200, JArr(<<JNum(1), JStr, JNum(3)>>))}

GoodReply == ProviderHttp(200, FlatVector(EmbeddingDim))

\* v.array(v.float64()): the validator of generateEmbedding's return value
\* and of save...Embedding's argument
IsFloatArray(j) ==
    j.t = "array" /\ \A i \in 1..Len(j.items) : j.items[i].t = "number"

EmbedOk(value, input) == [ok |-> TRUE, value |-> value, error |-> "", called |-> TRUE, input |-> input]
EmbedError(message, called, input) ==
    [ok |-> FALSE, value |-> JUndefined, error |-> message, called |-> called, input |-> input]

\* generateEmbedding: what runAction(internal.embeddings.generateEmbedding)
\* gives its caller when the provider answers reply
generateEmbedding(apiKey, text, reply) ==
    IF apiKey = ""
    THEN EmbedError("HUGGINGFACE_API_KEY not configured in Convex environment", FALSE, "")
    ELSE LET truncatedText == SliceTo(text, embedBudget)
         IN  IF reply.kind # "http" THEN EmbedError("fetch failed", TRUE, truncatedText)
             ELSE IF ~(reply.status >= 200 /\ reply.status <= 299)
             THEN EmbedError("Hugging Face API error: " \o ToString(reply.status),
                             TRUE, truncatedText)
             ELSE IF ~IsArray(reply.json) \/ Len(reply.json.items) = 0
             THEN EmbedError("Invalid embedding response from Hugging Face API",
                             TRUE, truncatedText)
             ELSE IF ~IsFloatArray(reply.json)
             THEN EmbedError("ReturnsValidationError", TRUE, truncatedText)
             ELSE EmbedOk(reply.json, truncatedText)

\* !doc.embedding
LacksEmbedding(doc) == doc.embedding.t = "undefined"

\* .map((post) => ({_id, title, contentCid}))
Projection(d) == [_id |-> d._id, title |-> d.title, contentCid |-> d.contentCid]

\* getPostsWithoutEmbeddings / getPagesWithoutEmbeddings with the limit ignored
getDocsWithoutEmbeddings_All(table, limit) ==
    LET lacking == SelectSeq(table, LAMBDA d : d.published /\ LacksEmbedding(d) /\ ~d.unlisted)
    IN  [i \in 1..Len(lacking) |-> Projection(lacking[i])]

\* getPostsWithoutEmbeddings / getPagesWithoutEmbeddings
getDocsWithoutEmbeddings(table, limit) ==
    LET lacking == Take(SelectSeq(SelectSeq(table, LAMBDA d : d.published),
                                  LAMBDA d : LacksEmbedding(d) /\ ~d.unlisted),
                        limit)
    IN  [i \in 1..Len(lacking) |-> Projection(lacking[i])]

\* ctx.db.patch(id, {embedding}) replacing the document by one that holds
\* nothing but the embedding
PatchEmbedding_Replace(table, id, embedding) ==
    [i \in 1..Len(table) |->
        IF table[i]._id = id
        THEN [table[i] EXCEPT !.embedding = embedding, !.title = "", !.slug = ""]
        ELSE table[i]]

\* savePostEmbedding / savePageEmbedding: ctx.db.patch(id, {embedding})
PatchEmbedding(table, id, embedding) ==
    [i \in 1..Len(table) |->
        IF table[i]._id = id THEN [table[i] EXCEPT !.embedding = embedding]
        ELSE table[i]]

\* a lookup that ignores the slug and returns the first document of the table
getDocBySlug_First(table, slug) ==
    IF table = <<>> THEN NullDoc ELSE Projection(table[1])

\* embeddingsQueries' getPostBySlug / getPageBySlug: the first document of
\* the by_slug index with that slug, published or not
getDocBySlug(table, slug) ==
    LET found == SelectSeq(table, LAMBDA d : d.slug = slug)
    IN  IF found = <<>> THEN NullDoc ELSE Projection(found[1])

\* the module's fetch of a document body: "" when the gateway client throws
BodyOrEmpty(gatewayBase, cid) ==
    CHOOSE body \in
        {[content |-> IF got.ok THEN got.value ELSE "",
          requested |-> got.requests # <<>>,
          failed |-> ~got.ok] :
            got \in {fetchContentFromIPFS(NetFor(cid), gatewayBase, cid)}} : TRUE

\* the text to embed with the title-only branch left out
TextToEmbed_Always(title, content) == prepareTextForEmbedding(title, content)

\* content ? prepareTextForEmbedding(title, content) : title
TextToEmbed(title, content) ==
    IF content # "" THEN prepareTextForEmbedding(title, content) ELSE title

\* the end of one loop iteration for doc: the save of what generateEmbedding
\* made, if it made something; fate.persist is whether the save goes through
SaveMade(table, doc, fate, body, made) ==
    [table |-> IF made.ok /\ fate.persist
               THEN PatchEmbedding(table, doc._id, made.value) ELSE table,
     ok |-> made.ok /\ fate.persist,
     error |-> IF ~made.ok THEN made.error
               ELSE IF ~fate.persist THEN "persist failed" ELSE "",
     fetched |-> body.requested,
     fetchFailed |-> body.failed,
     called |-> made.called,
     input |-> made.input,
     wrote |-> made.ok /\ fate.persist]

\* the body of one loop iteration (and of the try block of regenerate) for
\* doc, each step taking the result of the one before: fetch, prepare,
\* generate, save; fate.reply is what the provider answers
EmbedOne(table, doc, apiKey, gatewayBase, fate) ==
    CHOOSE out \in
        UNION {UNION {{SaveMade(table, doc, fate, body, made) :
                          made \in {generateEmbedding(apiKey, text, fate.reply)}} :
                      text \in {TextToEmbed(doc.title, body.content)}} :
               body \in {BodyOrEmpty(gatewayBase, doc.contentCid)}} : TRUE
-----------------------------------------------------------------------------
(* createSnippet, the strip chain and heading ids on their own: a text and *)
(* a search term, and the functions of search.ts applied to them            *)

\* the characters the short texts are made of: a letter, the backquote, the
\* heading mark and the blank
TextChars == {"a", Tick, "#", " "}

MaxTextLen == 5

RECURSIVE TextsOfLen(_)
TextsOfLen(n) ==
    IF n = 0 THEN {""} ELSE {c \o t : c \in TextChars, t \in TextsOfLen(n - 1)}

\* every text of up to MaxTextLen of these characters
ShortTexts == UNION {TextsOfLen(n) : n \in 0..MaxTextLen}

\* markdown as posts contain it
SampleTexts ==
    {"# A\nfoo\n## B\nbar baz",
     "intro foo\n# A\nbar baz",
     "# Setup\nsee [the docs](guide.html) baz",
     "# A\n![x](pic.png) baz",
     "# !!\nbaz",
     "x\n~~~sh\nfoo\n~~~\n![alt](pic.png) **b** *i* [l](u) ####### h"}

SampleTerms == {"baz", "Foo", "pic", "guide"}

SnippetInputs ==
    {[content |-> t, term |-> "a"] : t \in ShortTexts}
        \cup {[content |-> t, term |-> q] : t \in SampleTexts, q \in SampleTerms}

NoInput == [content |-> "", term |-> ""]

NoSnippet ==
    [snippet |-> "", anchor |-> Null, clean |-> "", originalIndex |-> -1,
     again |-> "", id |-> ""]

SnippetOff ==
    /\ snIn = NoInput
    /\ snPhase = "off"
    /\ snOut = NoSnippet

-----------------------------------------------------------------------------
(* useIPFSContent: the hook's state, the effect that runs when the cid     *)
(* changes, and the callbacks of the fetches it started                     *)

\* the cid the component passes ("" for null or undefined)
HookCids == {"", "QmA", "QmB"}

\* before the first render
Unmounted == "<unmounted>"

\* how often the cid changes
MaxCidChanges == 3

\* what the gateway serves for a cid, and the error of a failed fetch of it
ContentAt(cid) == "content of " \o cid
ErrorAt(cid) == "Failed to fetch content from IPFS: " \o cid

\* useState(null), useState(false), useState(null)
InitialView == [content |-> Null, isLoading |-> FALSE, error |-> Null]

HookOff ==
    /\ hkCid = Unmounted
    /\ hkView = InitialView
    /\ hkFlights = <<>>
    /\ hkChanges = 0

-----------------------------------------------------------------------------
(* The embedding pipeline as a state machine: runs of                      *)
(* generateMissingEmbeddings, generatePostEmbeddings /                     *)
(* generatePageEmbeddings and regeneratePostEmbedding /                    *)
(* regeneratePageEmbedding over a store whose documents carry embeddings   *)

\* what the provider answers for a document, and whether saving goes through
Fate(reply, persist) == [reply |-> reply, persist |-> persist]
GoodFate == Fate(GoodReply, TRUE)
Fates ==
    {Fate(r, TRUE) : r \in EmbedReplies} \cup {Fate(GoodReply, FALSE)}

Variant(cid, published, unlisted, embedded, fate) ==
    [title |-> "Intro to Caching", contentCid |-> cid, published |-> published,
     unlisted |-> unlisted, embedded |-> embedded, fate |-> fate]

Pending(fate) == Variant("QmCache", TRUE, FALSE, FALSE, fate)
Embedded == Variant("QmCache", TRUE, FALSE, TRUE, GoodFate)
FailingReply == ProviderHttp(503, JUndefined)

SmallVariants ==
    {Pending(f) : f \in Fates}
        \cup {Variant("QmDown", TRUE, FALSE, FALSE, GoodFate),
              Variant("QmDocs", TRUE, FALSE, FALSE, GoodFate),
              Variant("QmCache", FALSE, FALSE, FALSE, GoodFate),
              Variant("QmCache", TRUE, TRUE, FALSE, GoodFate),
              Embedded}

MaxEmbedDocs == 2
EmbedSlack == 1

SmallVariantTables == SeqsUpTo(SmallVariants, MaxEmbedDocs)

BulkVariantTables ==
    {Repeat(a, n) \o Repeat(b, k) :
        a \in {Pending(GoodFate), Pending(Fate(FailingReply, TRUE))},
        b \in {Pending(GoodFate), Pending(Fate(FailingReply, TRUE)), Embedded},
        n \in (embedLimit - EmbedSlack)..(embedLimit + EmbedSlack),
        k \in 0..(EmbedSlack + 1)}

\* the tables two runs race over
RaceVariantTables ==
    SeqsUpTo({Pending(GoodFate), Pending(Fate(FailingReply, TRUE)), Embedded},
             MaxEmbedDocs)

\* a full batch of documents followed by documents whose calls succeed
LiveVariantTables ==
    {Repeat(a, embedLimit) \o Repeat(Pending(GoodFate), k) :
        a \in {Pending(GoodFate), Pending(Fate(FailingReply, TRUE))},
        k \in 0..EmbedSlack}

PageVariantTables == {<<>>, <<Pending(GoodFate)>>}

\* a stored document with its embedding field
EmbedDoc(kind, i, v) ==
    [_id |-> <<kind, i>>,
     type |-> kind,
     slug |-> kind \o "-" \o ToString(i),
     title |-> v.title,
     description |-> DescriptionOf(v.title),
     excerpt |-> DescriptionOf(v.title),
     contentCid |-> v.contentCid,
     published |-> v.published,
     unlisted |-> v.unlisted,
     embedding |-> IF v.embedded THEN FlatVector(EmbeddingDim) ELSE JUndefined]

EmbedTable(kind, variants) == [i \in 1..Len(variants) |-> EmbedDoc(kind, i, variants[i])]

FateMap(postVariants, pageVariants) ==
    [id \in {<<"post", i>> : i \in 1..Len(postVariants)}
              \cup {<<"page", i>> : i \in 1..Len(pageVariants)} |->
        IF id[1] = "post" THEN postVariants[id[2]].fate ELSE pageVariants[id[2]].fate]

-----------------------------------------------------------------------------
(* The search state machine: a store, and one call at a time of            *)
(* searchTitleOnly, search or semanticSearch                               *)

\* process.env.PINATA_GATEWAY_URL of the deployment serving the call
SearchEnvs == {"", "my.mypinata.cloud"}

\* process.env.HUGGINGFACE_API_KEY ("" when unset)
ApiKeys == {"", "hf_key"}

SemanticQueries == {"", " \t", "Cach"}

Unused == "-"
NoReply == [kind |-> "none", status |-> 0, json |-> JUndefined]

NoCall ==
    [mode |-> Unused, query |-> "", order |-> Unused, env |-> Unused,
     apiKey |-> Unused, reply |-> NoReply, scoring |-> Unused, view |-> Unused]

Outcome(kind, results, candidates, titleCandidates, titleResults, fetched) ==
    [kind |-> kind, results |-> results, candidates |-> candidates,
     titleCandidates |-> titleCandidates, titleResults |-> titleResults,
     fetched |-> fetched,
     providerCalled |-> FALSE, vectorSearched |-> FALSE, available |-> FALSE]

NoOutcome == Outcome("none", <<>>, <<>>, <<>>, <<>>, {})

EmptyStore == [posts |-> <<>>, pages |-> <<>>]

NoResult ==
    [kind |-> "none", processed |-> 0, postsProcessed |-> 0, pagesProcessed |-> 0,
     skipped |-> FALSE, success |-> FALSE, error |-> ""]

\* {processed} of generatePostEmbeddings / generatePageEmbeddings
Processed(n) == [NoResult EXCEPT !.kind = "processed", !.processed = n]

\* {postsProcessed, pagesProcessed, skipped} of generateMissingEmbeddings
Maintained(posts, pages, skipped) ==
    [NoResult EXCEPT !.kind = "maintained", !.postsProcessed = posts,
                     !.pagesProcessed = pages, !.skipped = skipped]

\* {success, error} of regeneratePostEmbedding / regeneratePageEmbedding
Regenerated(success, error) ==
    [NoResult EXCEPT !.kind = "regenerated", !.success = success, !.error = error]

IdleRun ==
    [pc |-> "idle", entry |-> Unused, kind |-> Unused, slug |-> Unused,
     batch |-> <<>>, selected |-> {}, before |-> EmptyStore,
     postsProcessed |-> 0, pagesProcessed |-> 0,
     fetched |-> {}, fetchFailed |-> {}, sent |-> {}, wrote |-> {}, failed |-> {},
     result |-> NoResult]

Runners == {1, 2}

NoEmbedEnv == [apiKey |-> "", pinata |-> "", fate |-> <<>>]

EmbedOff ==
    /\ emDb = EmptyStore
    /\ emEnv = NoEmbedEnv
    /\ emRun = [r \in Runners |-> IdleRun]
    /\ emRunners = {}

\* the gateway client on its own: one call of fetchContentFromIPFS at a time

GatewayEnvs ==
    {"", "my.mypinata.cloud", "https://my.mypinata.cloud",
     "gateway.pinata.cloud", "https://gateway.pinata.cloud"}

GatewayVariants == {"semanticSearch", "rss"}

Cids == {"", "QmA", "QmB"}

\* The client has three fetch() call sites and no loop: one request to the
\* configured gateway and two to the public one (or, when the configured
\* gateway is the public one, two to the public one in all).
Networks ==
    [custom : {<<c>> : c \in Responses},
     public : {<<p, q>> : p \in Responses, q \in Responses}]

NoNet == [custom |-> <<>>, public |-> <<>>]
NoOut == Returned("", <<>>)

GatewayInit ==
    /\ gwPhase = "idle"
    /\ gwEnv \in GatewayEnvs
    /\ gwVariant \in GatewayVariants
    /\ gwCid = ""
    /\ gwNet = NoNet
    /\ gwOut = NoOut
    /\ db = EmptyStore
    /\ srPhase = "idle"
    /\ srCall = NoCall
    /\ srOut = NoOutcome
    /\ EmbedOff
    /\ SnippetOff
    /\ HookOff

gwBase == GatewayBaseOf(gwVariant, gwEnv)

\* a caller invokes fetchContentFromIPFS(cid); the network answers as net says
FetchBody ==
    /\ gwPhase = "idle"
    /\ \E cid \in Cids, net \in Networks :
          /\ gwCid' = cid
          /\ gwNet' = net
          /\ gwOut' = fetchContentFromIPFS(net, gwBase, cid)
    /\ gwPhase' = "done"
    /\ UNCHANGED <<gwEnv, gwVariant, srVars, emVars, snVars, hkVars>>

\* the caller took the outcome; the client is ready for the next call
FetchSettled ==
    /\ gwPhase = "done"
    /\ gwPhase' = "idle"
    /\ gwCid' = ""
    /\ gwNet' = NoNet
    /\ gwOut' = NoOut
    /\ UNCHANGED <<gwEnv, gwVariant, srVars, emVars, snVars, hkVars>>

GatewayNext == FetchBody \/ FetchSettled

GatewaySpec == GatewayInit /\ [][GatewayNext]_vars

SearchInit ==
    /\ db \in Stores
    /\ srPhase = "idle"
    /\ srCall = NoCall
    /\ srOut = NoOutcome
    /\ gwPhase = "idle"
    /\ gwEnv = ""
    /\ gwVariant = "semanticSearch"
    /\ gwCid = ""
    /\ gwNet = NoNet
    /\ gwOut = NoOut
    /\ EmbedOff
    /\ SnippetOff
    /\ HookOff

\* the index is only asked when the query is not blank
OrdersFor(query) == IF trim(query) = "" THEN {Unused} ELSE IndexOrders

\* the gateway is only asked when the query is not blank
EnvsFor(query) == IF trim(query) = "" THEN {Unused} ELSE SearchEnvs

\* the provider is only asked for a non-blank query with the credential set
RepliesFor(query, apiKey) ==
    IF trim(query) = "" \/ CredentialMissing(apiKey) THEN {NoReply} ELSE ProviderReplies

\* the vector index answers only when the provider's reply yields a vector
\* the index accepts
ReachesIndex(reply) ==
    /\ reply.kind = "http"
    /\ reply.status >= 200 /\ reply.status <= 299
    /\ ExtractQueryEmbedding(reply.json).kind = "vector"
    /\ ValidVector(ExtractQueryEmbedding(reply.json).vector)

CallSearchTitleOnly ==
    /\ srPhase = "idle"
    /\ \E query \in Queries : \E order \in OrdersFor(query) :
        /\ srCall' = [NoCall EXCEPT !.mode = "searchTitleOnly",
                                    !.query = query, !.order = order]
        /\ srOut' = Outcome("list",
                        searchTitleOnly(db, query, order),
                        IF trim(query) = "" THEN <<>>
                        ELSE TitleCandidates(db, query, order),
                        IF trim(query) = "" THEN <<>>
                        ELSE TitleCandidates(db, query, order),
                        <<>>, {})
    /\ srPhase' = "done"
    /\ UNCHANGED <<db, gwVars, emVars, snVars, hkVars>>

CallSearch ==
    /\ srPhase = "idle"
    /\ \E query \in Queries : \E order \in OrdersFor(query) : \E env \in EnvsFor(query) :
        /\ srCall' = [NoCall EXCEPT !.mode = "search", !.query = query,
                                    !.order = order, !.env = env]
        /\ srOut' =
             IF trim(query) = ""
             THEN Outcome("list", search(db, query, order, Unused),
                          <<>>, <<>>, <<>>, {})
             ELSE LET gatewayBase == searchGetIPFSGatewayUrl(env)
                      gathered == SearchCandidates(db, query, order, gatewayBase)
                  IN  Outcome("list",
                              search(db, query, order, gatewayBase),
                              gathered.results,
                              TitleCandidates(db, query, order),
                              searchTitleOnly(db, query, order),
                              gathered.fetched)
    /\ srPhase' = "done"
    /\ UNCHANGED <<db, gwVars, emVars, snVars, hkVars>>

CallSemanticSearch ==
    /\ srPhase = "idle"
    /\ \E query \in SemanticQueries : \E apiKey \in ApiKeys :
       \E reply \in RepliesFor(query, apiKey) :
       \E scoring \in (IF ReachesIndex(reply) THEN Scorings ELSE {Unused}) :
       \E view \in (IF ReachesIndex(reply) THEN IndexViews ELSE {Unused}) :
       \E env \in (IF ReachesIndex(reply) THEN SearchEnvs ELSE {Unused}) :
        LET out == semanticSearch(db, query, apiKey, reply, scoring, view,
                                  GatewayBaseOf("semanticSearch", env))
        IN  /\ srCall' = [mode |-> "semanticSearch", query |-> query,
                          order |-> Unused, env |-> env, apiKey |-> apiKey,
                          reply |-> reply, scoring |-> scoring, view |-> view]
            /\ srOut' = [Outcome(out.kind, out.results, out.candidates, <<>>, <<>>, {})
                            EXCEPT !.providerCalled = out.providerCalled,
                                   !.vectorSearched = out.vectorSearched]
    /\ srPhase' = "done"
    /\ UNCHANGED <<db, gwVars, emVars, snVars, hkVars>>

CallIsSemanticSearchAvailable ==
    /\ srPhase = "idle"
    /\ \E apiKey \in ApiKeys :
        /\ srCall' = [NoCall EXCEPT !.mode = "isSemanticSearchAvailable",
                                    !.apiKey = apiKey]
        /\ srOut' = [Outcome("boolean", <<>>, <<>>, <<>>, <<>>, {})
                        EXCEPT !.available = isSemanticSearchAvailable(apiKey)]
    /\ srPhase' = "done"
    /\ UNCHANGED <<db, gwVars, emVars, snVars, hkVars>>

\* the caller has taken the outcome; the next call may start
SearchSettled ==
    /\ srPhase = "done"
    /\ srPhase' = "idle"
    /\ srCall' = NoCall
    /\ srOut' = NoOutcome
    /\ UNCHANGED <<db, gwVars, emVars, snVars, hkVars>>

SearchNext ==
    \/ CallSearchTitleOnly
    \/ CallSearch
    \/ CallSemanticSearch
    \/ CallIsSemanticSearchAvailable
    \/ SearchSettled

SearchSpec == SearchInit /\ [][SearchNext]_vars

SearchOff ==
    /\ db = EmptyStore
    /\ srPhase = "idle"
    /\ srCall = NoCall
    /\ srOut = NoOutcome

GatewayOff ==
    /\ gwPhase = "idle"
    /\ gwEnv = ""
    /\ gwVariant = "semanticSearch"
    /\ gwCid = ""
    /\ gwNet = NoNet
    /\ gwOut = NoOut

EmbedStart(postTables, pageTables, apiKeys, runners) ==
    /\ \E posts \in postTables : \E pages \in pageTables :
         /\ emDb = [posts |-> EmbedTable("post", posts), pages |-> EmbedTable("page", pages)]
         /\ \E apiKey \in apiKeys :
              emEnv = [apiKey |-> apiKey, pinata |-> "my.mypinata.cloud",
                       fate |-> FateMap(posts, pages)]
    /\ emRun = [r \in Runners |-> IdleRun]
    /\ emRunners = runners
    /\ SearchOff
    /\ GatewayOff
    /\ SnippetOff
    /\ HookOff

\* one runner at a time
EmbedInit ==
    EmbedStart(SmallVariantTables \cup BulkVariantTables, PageVariantTables, ApiKeys, {1})

\* two runners side by side
EmbedRaceInit ==
    EmbedStart(RaceVariantTables, PageVariantTables, {"hf_key"}, Runners)

\* scheduled backfill over large tables
EmbedLiveInit ==
    EmbedStart(LiveVariantTables, PageVariantTables, {"hf_key"}, {1})

TableOf(store, kind) == IF kind = "post" THEN store.posts ELSE store.pages

WithTable(store, kind, table) ==
    IF kind = "post" THEN [store EXCEPT !.posts = table] ELSE [store EXCEPT !.pages = table]

emGatewayBase == GatewayBaseOf("semanticSearch", emEnv.pinata)

Select(kind) == getDocsWithoutEmbeddings(TableOf(emDb, kind), embedLimit)

Entered(entry, kind, batch) ==
    [IdleRun EXCEPT !.pc = "running", !.entry = entry, !.kind = kind,
                    !.batch = batch, !.selected = IdsOf(batch), !.before = emDb]

\* generateMissingEmbeddings is called: without the credential it returns
\* at once, otherwise it starts with generatePostEmbeddings
StartMaintenance(r) ==
    /\ emRun[r].pc = "idle"
    /\ emRun' = [emRun EXCEPT ![r] =
          IF emEnv.apiKey = ""
          THEN [IdleRun EXCEPT !.pc = "done", !.entry = "generateMissingEmbeddings",
                               !.before = emDb, !.result = Maintained(0, 0, TRUE)]
          ELSE Entered("generateMissingEmbeddings", "post", Select("post"))]
    /\ UNCHANGED <<emDb, emEnv, emRunners, gwVars, srVars, snVars, hkVars>>

\* generatePostEmbeddings / generatePageEmbeddings is invoked on its own
StartBackfill(r, kind) ==
    /\ emRun[r].pc = "idle"
    /\ emRun' = [emRun EXCEPT ![r] =
          Entered(IF kind = "post" THEN "generatePostEmbeddings"
                  ELSE "generatePageEmbeddings", kind, Select(kind))]
    /\ UNCHANGED <<emDb, emEnv, emRunners, gwVars, srVars, snVars, hkVars>>

\* one iteration of the loop over the selected documents
ProcessDoc(r) ==
    /\ emRun[r].pc = "running"
    /\ emRun[r].batch # <<>>
    /\ \E run \in {emRun[r]} : \E doc \in {Head(emRun[r].batch)} :
       \E out \in {EmbedOne(TableOf(emDb, run.kind), doc, emEnv.apiKey,
                             emGatewayBase, emEnv.fate[doc._id])} :
       LET one == IF out.ok THEN 1 ELSE 0
       IN  /\ emDb' = WithTable(emDb, run.kind, out.table)
           /\ emRun' = [emRun EXCEPT ![r] =
                 [run EXCEPT
                    !.batch = Tail(run.batch),
                    !.postsProcessed = @ + (IF run.kind = "post" THEN one ELSE 0),
                    !.pagesProcessed = @ + (IF run.kind = "page" THEN one ELSE 0),
                    !.fetched = @ \cup (IF out.fetched THEN {doc._id} ELSE {}),
                    !.fetchFailed = @ \cup (IF out.fetchFailed THEN {doc._id} ELSE {}),
                    !.sent = @ \cup (IF out.called THEN {<<doc._id, out.input>>} ELSE {}),
                    !.wrote = @ \cup (IF out.wrote THEN {doc._id} ELSE {}),
                    !.failed = @ \cup (IF out.ok THEN {} ELSE {doc._id})]]
    /\ UNCHANGED <<emEnv, emRunners, gwVars, srVars, snVars, hkVars>>

\* the loop is over: generateMissingEmbeddings goes on with the pages,
\* otherwise the action returns
FinishKind(r) ==
    /\ emRun[r].pc = "running"
    /\ emRun[r].batch = <<>>
    /\ LET run == emRun[r]
       IN  emRun' = [emRun EXCEPT ![r] =
              IF run.entry = "generateMissingEmbeddings" /\ run.kind = "post"
              THEN [run EXCEPT !.kind = "page", !.batch = Select("page"),
                               !.selected = @ \cup IdsOf(Select("page"))]
              ELSE IF run.entry = "generateMissingEmbeddings"
              THEN [run EXCEPT !.pc = "done",
                               !.result = Maintained(run.postsProcessed,
                                                     run.pagesProcessed, FALSE)]
              ELSE [run EXCEPT !.pc = "done",
                               !.result = Processed(run.postsProcessed
                                                        + run.pagesProcessed)]]
    /\ UNCHANGED <<emDb, emEnv, emRunners, gwVars, srVars, snVars, hkVars>>

RegenerateSlugs(kind) == {kind \o "-1", kind \o "-2", "no-such-slug"}

\* regeneratePostEmbedding / regeneratePageEmbedding
Regenerate(r, kind, slug) ==
    /\ emRun[r].pc = "idle"
    /\ LET start == [IdleRun EXCEPT !.pc = "done", !.kind = kind, !.slug = slug,
                       !.entry = IF kind = "post" THEN "regeneratePostEmbedding"
                                 ELSE "regeneratePageEmbedding",
                       !.before = emDb]
           doc == getDocBySlug(TableOf(emDb, kind), slug)
       IN  IF emEnv.apiKey = ""
           THEN /\ emRun' = [emRun EXCEPT ![r] =
                      [start EXCEPT !.result =
                          Regenerated(FALSE, "HUGGINGFACE_API_KEY not configured")]]
                /\ emDb' = emDb
           ELSE IF doc = NullDoc
           THEN /\ emRun' = [emRun EXCEPT ![r] =
                      [start EXCEPT !.result =
                          Regenerated(FALSE, IF kind = "post" THEN "Post not found"
                                             ELSE "Page not found")]]
                /\ emDb' = emDb
           ELSE \E out \in {EmbedOne(TableOf(emDb, kind), doc, emEnv.apiKey,
                                        emGatewayBase, emEnv.fate[doc._id])} :
                    /\ emDb' = WithTable(emDb, kind, out.table)
                    /\ emRun' = [emRun EXCEPT ![r] =
                          [start EXCEPT
                             !.selected = {doc._id},
                             !.fetched = IF out.fetched THEN {doc._id} ELSE {},
                             !.fetchFailed = IF out.fetchFailed THEN {doc._id} ELSE {},
                             !.sent = IF out.called THEN {<<doc._id, out.input>>} ELSE {},
                             !.wrote = IF out.wrote THEN {doc._id} ELSE {},
                             !.failed = IF out.ok THEN {} ELSE {doc._id},
                             !.result = Regenerated(out.ok, out.error)]]
    /\ UNCHANGED <<emEnv, emRunners, gwVars, srVars, snVars, hkVars>>

\* the caller has taken the result; the runner may be invoked again
RunSettled(r) ==
    /\ emRun[r].pc = "done"
    /\ emRun' = [emRun EXCEPT ![r] = IdleRun]
    /\ UNCHANGED <<emDb, emEnv, emRunners, gwVars, srVars, snVars, hkVars>>

Maintenance == \E r \in emRunners : StartMaintenance(r)
BackfillPosts == \E r \in emRunners : StartBackfill(r, "post")
BackfillPages == \E r \in emRunners : StartBackfill(r, "page")
EmbedNextDoc == \E r \in emRunners : ProcessDoc(r)
EmbedNextKind == \E r \in emRunners : FinishKind(r)
RegenerateDoc ==
    \E r \in emRunners : \E kind \in {"post", "page"} : \E slug \in RegenerateSlugs(kind) :
        Regenerate(r, kind, slug)
EmbedSettled == \E r \in emRunners : RunSettled(r)

EmbedNext ==
    \/ Maintenance
    \/ BackfillPosts
    \/ BackfillPages
    \/ EmbedNextDoc
    \/ EmbedNextKind
    \/ RegenerateDoc
    \/ EmbedSettled

EmbedSpec == EmbedInit /\ [][EmbedNext]_vars

EmbedRaceSpec == EmbedRaceInit /\ [][EmbedNext]_vars

\* the scheduler: each kind's backfill is invoked again and again
ScheduleNext ==
    \/ BackfillPosts
    \/ BackfillPages
    \/ EmbedNextDoc
    \/ EmbedNextKind
    \/ EmbedSettled

EmbedLiveSpec ==
    /\ EmbedLiveInit
    /\ [][ScheduleNext]_vars
    /\ SF_vars(BackfillPosts)
    /\ SF_vars(BackfillPages)
    /\ WF_vars(EmbedNextDoc)
    /\ WF_vars(EmbedNextKind)
    /\ WF_vars(EmbedSettled)

-----------------------------------------------------------------------------
(* The snippet functions and the hook as state machines                    *)

SnippetInit ==
    /\ snIn \in SnippetInputs
    /\ snPhase = "input"
    /\ snOut = NoSnippet
    /\ GatewayOff
    /\ SearchOff
    /\ EmbedOff
    /\ HookOff

\* createSnippet(content, searchTerm, 150)
MakeSnippet ==
    /\ snPhase = "input"
    /\ \E made \in {createSnippetOf(snIn.content, LowerFrom(snIn.term, 1), 150)} :
        snOut' = [snOut EXCEPT !.snippet = made.snippet, !.anchor = made.anchor,
                               !.clean = made.clean,
                               !.originalIndex = made.originalIndex]
    /\ snPhase' = "snippet"
    /\ UNCHANGED <<snIn, gwVars, srVars, emVars, hkVars>>

\* the strip chain applied to the text it produced
StripAgain ==
    /\ snPhase = "snippet"
    /\ \E again \in {stripMarkdown(snOut.clean)} :
        snOut' = [snOut EXCEPT !.again = again]
    /\ snPhase' = "restripped"
    /\ UNCHANGED <<snIn, gwVars, srVars, emVars, hkVars>>

\* the heading line that carries the text as its heading text
HeadingLineOf(text) == "# " \o text

\* findNearestHeading's loop body on a heading line with this text:
\* generateSlug(headingMatch[2].trim())
HeadingId ==
    /\ snPhase = "input"
    /\ ~Includes(snIn.content, "\n")
    /\ \E line \in {HeadingLineOf(snIn.content)} :
        /\ IsHeadingLine(line)
        /\ snOut' = [snOut EXCEPT !.id = generateSlug(HeadingText(line))]
    /\ snPhase' = "heading"
    /\ UNCHANGED <<snIn, gwVars, srVars, emVars, hkVars>>

SnippetNext == MakeSnippet \/ StripAgain \/ HeadingId

SnippetSpec == SnippetInit /\ [][SnippetNext]_vars

HookInit ==
    /\ HookOff
    /\ GatewayOff
    /\ SearchOff
    /\ EmbedOff
    /\ SnippetOff

\* the sequence without its i-th element
WithoutAt(seq, i) == SubSeq(seq, 1, i - 1) \o SubSeq(seq, i + 1, Len(seq))

\* a render with another cid, and the effect it triggers: the state is
\* reset, and a fetch is started unless there is no cid
RunEffect ==
    /\ hkChanges < MaxCidChanges
    /\ \E cid \in HookCids \ {hkCid} :
        /\ hkCid' = cid
        /\ hkView' = [content |-> Null, isLoading |-> cid # "", error |-> Null]
        /\ hkFlights' = IF cid = "" THEN hkFlights
                        ELSE Append(hkFlights, [cid |-> cid, started |-> hkChanges + 1,
                                                stage |-> "pending"])
    /\ hkChanges' = hkChanges + 1
    /\ UNCHANGED <<gwVars, srVars, emVars, snVars>>

\* .then: a fetch delivers its content
FetchFulfilled ==
    /\ \E i \in 1..Len(hkFlights) :
        /\ hkFlights[i].stage = "pending"
        /\ hkView' = [hkView EXCEPT !.content = ContentAt(hkFlights[i].cid),
                                    !.error = Null]
        /\ hkFlights' = [hkFlights EXCEPT ![i].stage = "settled"]
    /\ UNCHANGED <<hkCid, hkChanges, gwVars, srVars, emVars, snVars>>

\* .catch: a fetch fails
FetchRejected ==
    /\ \E i \in 1..Len(hkFlights) :
        /\ hkFlights[i].stage = "pending"
        /\ hkView' = [hkView EXCEPT !.error = ErrorAt(hkFlights[i].cid),
                                    !.content = Null]
        /\ hkFlights' = [hkFlights EXCEPT ![i].stage = "settled"]
    /\ UNCHANGED <<hkCid, hkChanges, gwVars, srVars, emVars, snVars>>

\* .finally
FetchFinally ==
    /\ \E i \in 1..Len(hkFlights) :
        /\ hkFlights[i].stage = "settled"
        /\ hkView' = [hkView EXCEPT !.isLoading = FALSE]
        /\ hkFlights' = WithoutAt(hkFlights, i)
    /\ UNCHANGED <<hkCid, hkChanges, gwVars, srVars, emVars, snVars>>

HookNext == RunEffect \/ FetchFulfilled \/ FetchRejected \/ FetchFinally

HookSpec == HookInit /\ [][HookNext]_vars

-----------------------------------------------------------------------------
(* Properties of the gateway client                                        *)

gwDone == gwPhase = "done" /\ gwCid # ""

\* the reply to the call's first request, the one sent to the configured gateway
gwPrimaryReply == gwNet[HostOf(gwBase)][1]

\* the requests after the first one: the fallback hops
gwFallbackRequests == {i \in 2..Len(gwOut.requests) : TRUE}

gwPublicUrl == publicGatewayBase \o "/ipfs/" \o gwCid

\* C1: with a configured gateway other than the public one, when the primary
\* attempt fails and every fallback attempt fails too, the call fails with an
\* error that carries the primary attempt's failure detail (its status line,
\* or its transport message), not a fallback attempt's.
C1_PrimaryErrorPreserved ==
    (/\ gwDone
     /\ gwBase # publicGatewayBase
     /\ ~ResponseOk(gwPrimaryReply)
     /\ gwFallbackRequests # {}
     /\ \A i \in gwFallbackRequests : ~ResponseOk(gwOut.requests[i].reply))
        => /\ ~gwOut.ok
           /\ EndsWith(gwOut.error, FailureDetail(gwPrimaryReply))

\* C2: with a configured gateway other than the public one, a primary reply
\* of 401, 403 or 429 and a public gateway that answers 200, the call returns
\* exactly the public gateway's body.
C2_FallbackBodyReturned ==
    (/\ gwDone
     /\ gwBase # publicGatewayBase
     /\ gwNet.custom[1].kind = "http"
     /\ gwNet.custom[1].status \in {401, 403, 429}
     /\ gwNet.public[1].kind = "http"
     /\ gwNet.public[1].status = 200)
        => /\ gwOut.ok
           /\ gwOut.value = gwNet.public[1].body

C2_Witness ==
    /\ gwDone
    /\ gwBase # publicGatewayBase
    /\ gwNet.custom[1] = Http(429, "")
    /\ gwNet.public[1] = Http(200, "beta")
    /\ gwOut.ok
    /\ gwOut.value = "beta"
    /\ Len(gwOut.requests) = 2
    /\ gwOut.requests[2].url = gwPublicUrl

\* C3: when the configured gateway answers with a success status the call
\* returns exactly that body, and the request to the configured gateway is
\* the only request of the call.
C3_PrimarySuccessNoFallback ==
    (gwDone /\ gwPrimaryReply.kind = "http" /\ gwPrimaryReply.status \in 200..299)
        => /\ gwOut.ok
           /\ gwOut.value = gwPrimaryReply.body
           /\ Len(gwOut.requests) = 1
           /\ gwOut.requests[1].url = gwBase \o "/ipfs/" \o gwCid

C3_Witness ==
    /\ gwDone
    /\ gwBase # publicGatewayBase
    /\ gwNet.custom[1] = Http(200, "alpha")
    /\ gwNet.public[1] = Http(200, "beta")
    /\ gwOut.ok
    /\ gwOut.value = "alpha"
    /\ Len(gwOut.requests) = 1

\* C4: one call sends at most one request to the public (fallback) gateway
\* and at most two requests in all.
C4_OneFallbackHop ==
    gwDone =>
        /\ Len(gwOut.requests) <= 2
        /\ Cardinality({i \in 1..Len(gwOut.requests) :
                            gwOut.requests[i].url = gwPublicUrl}) <= 1

\* C5: when the configured gateway is the public gateway itself, a failing
\* call sends exactly one request and fails with that request's failure.
C5_IdenticalEndpointsNoRetry ==
    (gwDone /\ gwBase = publicGatewayBase /\ ~gwOut.ok)
        => /\ Len(gwOut.requests) = 1
           /\ EndsWith(gwOut.error, FailureDetail(gwPrimaryReply))

-----------------------------------------------------------------------------
(* Claims about search                                                     *)

srDone == srPhase = "done"
srKeyword == srDone /\ srCall.mode \in {"searchTitleOnly", "search"}
srSearched == srDone /\ srCall.mode \in {"searchTitleOnly", "search", "semanticSearch"}

\* the stored document a result refers to
DocOf(id) == IF id[1] = "post" THEN db.posts[id[2]] ELSE db.pages[id[2]]

\* the result's title contains the lower-cased query
srInTitle(r) == InTitleTable[r.title, srCall.query]

Occurrences(results, id) == Cardinality({i \in 1..Len(results) : results[i]._id = id})

PositionIn(results, id) == CHOOSE k \in 1..Len(results) : results[k]._id = id

\* C6: in the list keyword search returns (and in the candidates it gathers)
\* every document id occurs at most once; content retrieval requests no body
\* of a document title retrieval put in the candidate set, and such a
\* document's entry stays the one title retrieval made.
C6_KeywordDeduplicated ==
    (srDone /\ srCall.mode = "search") =>
        /\ \A i \in 1..Len(srOut.results) :
               Occurrences(srOut.results, srOut.results[i]._id) = 1
        /\ \A i \in 1..Len(srOut.candidates) :
               Occurrences(srOut.candidates, srOut.candidates[i]._id) = 1
        /\ srOut.fetched \cap IdsOf(srOut.titleResults) = {}
        /\ \A i \in 1..Len(srOut.candidates) :
               srOut.candidates[i]._id \in IdsOf(srOut.titleResults) =>
                   \E k \in 1..Len(srOut.titleResults) :
                       srOut.titleResults[k] = srOut.candidates[i]

\* C6 witness: a search whose title retrieval made a candidate of a document
\* whose body also matches the query, next to a document added from content
C6_Witness ==
    /\ srDone /\ srCall.mode = "search"
    /\ \E i \in 1..Len(srOut.titleResults) :
           MatchTable[DocOf(srOut.titleResults[i]._id).contentCid, srCall.query]
    /\ srOut.fetched # {}
    /\ Len(srOut.candidates) > Len(srOut.titleResults)

\* C7: no result of any mode refers to an unpublished document or to an
\* unlisted post.
C7_OnlyPublishedListed ==
    srDone =>
        \A i \in 1..Len(srOut.results) :
            LET doc == DocOf(srOut.results[i]._id)
            IN  doc.published /\ ~(doc.type = "post" /\ doc.unlisted)

\* C7 witness: a semantic search whose vector index still lists an
\* unpublished document, over a store that also holds a published one
C7_Witness ==
    /\ srDone /\ srCall.mode = "semanticSearch" /\ srCall.view = "stale"
    /\ \E i \in 1..Len(db.posts) : ~db.posts[i].published
    /\ srOut.results # <<>>

\* the place of a result in retrieval order: title-retrieved posts,
\* title-retrieved pages, content-matched posts, content-matched pages
RetrievalRank(r) ==
    IF srCall.mode = "searchTitleOnly" \/ r._id \in IdsOf(srOut.titleResults)
    THEN PositionIn(srOut.titleCandidates, r._id)
    ELSE Len(srOut.titleCandidates) + PositionIn(srOut.candidates, r._id)

\* C8: in the list keyword search returns, no result whose title lacks the
\* query precedes one whose title contains it, and results of the same group
\* are in retrieval order.
C8_TitleFirstStable ==
    srKeyword =>
        \A i \in 1..Len(srOut.results) : \A j \in 1..Len(srOut.results) :
            i < j =>
                /\ ~(~srInTitle(srOut.results[i]) /\ srInTitle(srOut.results[j]))
                /\ srInTitle(srOut.results[i]) = srInTitle(srOut.results[j]) =>
                       RetrievalRank(srOut.results[i]) < RetrievalRank(srOut.results[j])

\* C8 witness: a search that retrieved a result whose title lacks the query
\* before one whose title contains it, and returned both
C8_Witness ==
    /\ srDone /\ srCall.mode = "search"
    /\ \E i \in 1..Len(srOut.candidates) : \E j \in 1..Len(srOut.candidates) :
           /\ i < j
           /\ ~srInTitle(srOut.candidates[i])
           /\ srInTitle(srOut.candidates[j])
           /\ srOut.candidates[i]._id \in IdsOf(srOut.results)
           /\ srOut.candidates[j]._id \in IdsOf(srOut.results)

\* c ranks ahead of k: by title containment for keyword search, by score for
\* semantic search
RanksAhead(c, k) ==
    IF srCall.mode = "semanticSearch" THEN c.score > k.score
    ELSE srInTitle(c) /\ ~srInTitle(k)

\* C9: every returned list has at most 15 entries, and no candidate left out
\* of it ranks ahead of an entry kept in it.
C9_AtMostFifteenAfterRanking ==
    srDone =>
        /\ Len(srOut.results) <= 15
        /\ \A i \in 1..Len(srOut.candidates) : \A k \in 1..Len(srOut.results) :
               srOut.candidates[i]._id \notin IdsOf(srOut.results) =>
                   ~RanksAhead(srOut.candidates[i], srOut.results[k])

\* C9 witness: a semantic search with more candidates than the list holds,
\* the candidate gathered first scoring lowest
C9_Witness ==
    /\ srDone /\ srCall.mode = "semanticSearch" /\ srCall.scoring = "rising"
    /\ Len(srOut.candidates) > 15
    /\ Len(srOut.results) = 15

\* C9 witness for keyword search: more candidates than the list holds, some
\* with and some without the query in the title
C9_KeywordWitness ==
    /\ srDone /\ srCall.mode = "search"
    /\ Len(srOut.candidates) > 15
    /\ \E i \in 1..Len(srOut.candidates) : srInTitle(srOut.candidates[i])
    /\ \E i \in 1..Len(srOut.candidates) : ~srInTitle(srOut.candidates[i])

BlankQuery(q) == \A i \in 1..Len(q) : IsSpace(CharAt(q, i))

\* C10: for an empty or whitespace-only query every mode returns the empty
\* list, without error.
C10_BlankQueryEmpty ==
    (srSearched /\ BlankQuery(srCall.query)) =>
        srOut.kind = "list" /\ srOut.results = <<>>

\* C10 witness: semantic search of a whitespace-only query with the
\* credential configured, over a store with a published post
C10_Witness ==
    /\ srDone /\ srCall.mode = "semanticSearch"
    /\ srCall.query # "" /\ BlankQuery(srCall.query)
    /\ srCall.apiKey # ""
    /\ \E i \in 1..Len(db.posts) :
           db.posts[i].published /\ ~db.posts[i].unlisted

\* C11: semantic search never raises an error to its caller: whatever the
\* provider and the gateways answer, the call ends with a list.
C11_SemanticNeverThrows ==
    (srDone /\ srCall.mode = "semanticSearch") => srOut.kind = "list"

\* the first reply of the gateway search's client asks for a document's body
srFirstReply(doc) ==
    NetFor(doc.contentCid)[HostOf(searchGetIPFSGatewayUrl(srCall.env))][1]

srFetchFails(doc) ==
    ~(srFirstReply(doc).kind = "http" /\ srFirstReply(doc).status \in 200..299)

srDocs == {db.posts[i] : i \in 1..Len(db.posts)} \cup {db.pages[i] : i \in 1..Len(db.pages)}

\* a keyword search during which the fetch of some document's body failed
srFetchFailed ==
    /\ srDone /\ srCall.mode = "search"
    /\ \E id \in srOut.fetched : srFetchFails(DocOf(id))

\* the documents content retrieval has to add: published, listed, not a
\* title result, body fetched successfully and matching the query
srContentDue ==
    {d \in srDocs :
        /\ d.published /\ ~(d.type = "post" /\ d.unlisted)
        /\ d._id \notin IdsOf(srOut.titleResults)
        /\ ~srFetchFails(d)
        /\ MatchTable[d.contentCid, srCall.query]}

\* C12 (amended): in a keyword search a failed fetch only skips its
\* document: the search returns a list, every title result and every other
\* published listed document whose fetch succeeds and whose body matches is
\* a candidate, and a candidate is missing from the returned list only when
\* the list is full (15 entries).
C12_FetchFailureSkipsDocument ==
    srFetchFailed =>
        /\ srOut.kind = "list"
        /\ IdsOf(srOut.titleResults) \subseteq IdsOf(srOut.candidates)
        /\ {d._id : d \in srContentDue} \subseteq IdsOf(srOut.candidates)
        /\ \/ IdsOf(srOut.candidates) \subseteq IdsOf(srOut.results)
           \/ Len(srOut.results) = 15

\* C12 as stated: with a failed fetch, all title results and every other
\* matching document are in the returned list.
C12_AllReturned ==
    srFetchFailed =>
        /\ srOut.kind = "list"
        /\ IdsOf(srOut.titleResults) \subseteq IdsOf(srOut.results)
        /\ {d._id : d \in srContentDue} \subseteq IdsOf(srOut.results)

\* C12 witness: a fetch failed, and a document visited after the failing
\* one was added from its content
C12_Witness ==
    /\ srFetchFailed
    /\ \E id \in srOut.fetched : \E d \in srContentDue :
           /\ srFetchFails(DocOf(id))
           /\ d.type = DocOf(id).type
           /\ d._id[2] > id[2]
           /\ d._id \in IdsOf(srOut.results)

\* C13: without the credential semantic search returns the empty list and
\* calls neither the provider nor the vector index, for every query;
\* isSemanticSearchAvailable answers true exactly when the credential is set.
C13_NoCredentialDegrades ==
    /\ (srDone /\ srCall.mode = "semanticSearch" /\ srCall.apiKey = "") =>
           /\ srOut.kind = "list" /\ srOut.results = <<>>
           /\ ~srOut.providerCalled /\ ~srOut.vectorSearched
    /\ (srDone /\ srCall.mode = "isSemanticSearchAvailable") =>
           (srOut.available <=> srCall.apiKey # "")

\* C13 witness: semantic search of a non-blank query without the credential,
\* over a store with a published listed post
C13_Witness ==
    /\ srDone /\ srCall.mode = "semanticSearch"
    /\ srCall.apiKey = "" /\ ~BlankQuery(srCall.query)
    /\ \E i \in 1..Len(db.posts) : db.posts[i].published /\ ~db.posts[i].unlisted

-----------------------------------------------------------------------------
(* Claims about the embedding pipeline                                     *)

emDone(r) == emRun[r].pc = "done"

emBackfills == {"generatePostEmbeddings", "generatePageEmbeddings"}

RowsOf(table) == {table[i] : i \in DOMAIN table}

\* the published, listed documents of a table that have no embedding
LackingRows(table) ==
    {d \in RowsOf(table) : d.published /\ ~d.unlisted /\ d.embedding.t = "undefined"}

RowById(table, id) == CHOOSE d \in RowsOf(table) : d._id = id

\* the kinds a finished batch run has gone through
emKindsOf(run) ==
    IF run.entry \in emBackfills THEN {run.kind}
    ELSE IF run.entry = "generateMissingEmbeddings" /\ ~run.result.skipped
    THEN {"post", "page"}
    ELSE {}

emProcessedOf(run, kind) ==
    IF run.entry \in emBackfills THEN run.result.processed
    ELSE IF kind = "post" THEN run.result.postsProcessed
    ELSE run.result.pagesProcessed

\* every provider and persist call for a document lacking an embedding succeeds
emAllSucceed(table) ==
    /\ emEnv.apiKey # ""
    /\ \A d \in LackingRows(table) : emEnv.fate[d._id] = GoodFate

\* the run r went over more lacking documents of the kind than one batch
\* holds, and every call succeeded
emOverfull(r, kind) ==
    /\ emDone(r)
    /\ kind \in emKindsOf(emRun[r])
    /\ Cardinality(LackingRows(TableOf(emRun[r].before, kind))) > embedLimit
    /\ emAllSucceed(TableOf(emRun[r].before, kind))

\* C14: when more than embedLimit published, listed documents of a kind lack
\* an embedding and every call succeeds, one run gives exactly embedLimit of
\* them an embedding, leaves the others without one, writes no document
\* twice, and leaves the documents that had an embedding as they were
C14_ExactlyOneBatch ==
    \A r \in emRunners : \A kind \in {"post", "page"} :
        emOverfull(r, kind) =>
            LET before == TableOf(emRun[r].before, kind)
                after == TableOf(emDb, kind)
                lacking == {d._id : d \in LackingRows(before)}
                still == {d._id : d \in LackingRows(after)}
                wrote == {id \in emRun[r].wrote : id[1] = kind}
            IN  /\ Cardinality(lacking \ still) = embedLimit
                /\ Cardinality(lacking \cap still) = Cardinality(lacking) - embedLimit
                /\ wrote = lacking \ still
                /\ emProcessedOf(emRun[r], kind) = Cardinality(wrote)
                /\ \A d \in RowsOf(before) :
                      d.embedding.t # "undefined" => d \in RowsOf(after)

\* C14 witness: a finished run over a kind with more lacking documents than
\* one batch holds, next to a document that already had an embedding
C14_Witness ==
    \E r \in emRunners :
        /\ emOverfull(r, "post")
        /\ \E d \in RowsOf(emRun[r].before.posts) : d.embedding.t # "undefined"
        /\ emRun[r].wrote # {}

\* a non-empty flat numeric vector of the provider's dimensionality
emFixedVector(j) ==
    /\ j.t = "array"
    /\ Len(j.items) = EmbeddingDim
    /\ \A i \in 1..Len(j.items) : j.items[i].t = "number"

\* a run has written a document
emSomeWrite == \E r \in emRunners : emRun[r].wrote # {}

\* C15: every embedding a run has persisted onto a document is a non-empty
\* flat numeric vector of the provider's fixed dimensionality, and a
\* provider response of any other shape is a failure without a write
C15_PersistedVectorsWellFormed ==
    /\ \A kind \in {"post", "page"} : \A d \in RowsOf(TableOf(emDb, kind)) :
          d.embedding.t # "undefined" => emFixedVector(d.embedding)
    /\ \A r \in emRunners : \A id \in emRun[r].wrote :
          emFixedVector(emEnv.fate[id].reply.json)

\* the documents a finished run failed on: those whose iteration ended in
\* the catch block
emFailedIn(r) == emRun[r].failed

\* the ids the next invocation for the kind would select now
emNextSelection(kind) ==
    {d._id : d \in RowsOf(Take(SelectSeq(TableOf(emDb, kind),
                 LAMBDA d : d.published /\ d.embedding.t = "undefined" /\ ~d.unlisted),
                 embedLimit))}

emBatchDone(r) ==
    /\ emDone(r)
    /\ emRun[r].entry \in emBackfills \cup {"generateMissingEmbeddings"}
    /\ emEnv.apiKey # ""

C16_TitleOnlyWitness ==
    \E r \in emRunners : emBatchDone(r) /\ emRun[r].fetchFailed \cap emRun[r].wrote # {}

\* a published, listed post whose own provider call and save always succeed
emOwnCallsSucceed(d) ==
    d.published /\ ~d.unlisted /\ emEnv.fate[d._id] = GoodFate

\* every post whose own calls succeed has an embedding
emGoodPostsEmbedded ==
    \A d \in RowsOf(emDb.posts) : emOwnCallsSucceed(d) => d.embedding.t # "undefined"

\* C17: under repeated, fairly scheduled backfill of a kind, every
\* published, listed document whose own provider call and save succeed
\* eventually has an embedding, however many other documents fail each time
C17_GoodDocumentsEventuallyEmbedded == <>emGoodPostsEmbedded

\* both runs are batch runs that have returned
emBothDone ==
    /\ emRunners = Runners
    /\ \A r \in Runners : emBatchDone(r)

\* both runs went over the same kind and selected some document in common
emOverlap ==
    /\ emBothDone
    /\ emRun[1].selected \cap emRun[2].selected # {}

\* the documents of both kinds as the run r found them
emBeforeRows(r) == RowsOf(emRun[r].before.posts) \cup RowsOf(emRun[r].before.pages)

emRowsNow == RowsOf(emDb.posts) \cup RowsOf(emDb.pages)

\* C18: when two runs are interleaved, each selected document whose calls
\* succeed ends with the complete vector of one of the runs, each run
\* processes every document it selected whose calls succeed, whatever the
\* other run has already written, and no field but embedding is changed
C18_ConcurrentRunsIndependent ==
    emBothDone =>
        /\ \A r \in Runners : \A id \in emRun[r].selected :
              emEnv.fate[id] = GoodFate =>
                 /\ RowById(TableOf(emDb, id[1]), id).embedding = GoodReply.json
                 /\ id \in emRun[r].wrote
                 /\ id \notin emRun[r].failed
        /\ \A r \in Runners :
              emRun[r].postsProcessed + emRun[r].pagesProcessed
                  = Cardinality({id \in emRun[r].selected : id \notin emRun[r].failed})
        /\ \A r \in Runners : \A d \in emBeforeRows(r) :
              \E e \in emRowsNow : [e EXCEPT !.embedding = d.embedding] = d

\* C18 witness: two finished runs that selected the same document, which
\* both wrote
C18_Witness ==
    /\ emOverlap
    /\ emRun[1].wrote \cap emRun[2].wrote # {}

\* a batch run, entered through either entry point, has returned and the
\* provider credential is absent
emDoneWithoutCredential(r) ==
    /\ emDone(r)
    /\ emRun[r].entry \in emBackfills \cup {"generateMissingEmbeddings"}
    /\ emEnv.apiKey = ""

\* C19: without the provider credential a batch run, entered through
\* generateMissingEmbeddings or through the backfill of one kind, makes no
\* gateway fetch, no provider call and no write, and reports skipped
C19_NoCredentialSkips ==
    \A r \in emRunners :
        emDoneWithoutCredential(r) =>
            /\ emRun[r].fetched = {}
            /\ emRun[r].sent = {}
            /\ emRun[r].wrote = {}
            /\ emRun[r].result.skipped

emRegenerations == {"regeneratePostEmbedding", "regeneratePageEmbedding"}

\* a regeneration has returned
emRegenerated(r) == emDone(r) /\ emRun[r].entry \in emRegenerations

\* the stored document with the slug the regeneration was asked for, before
\* and after it
emSlugRows(store, kind, slug) == {d \in RowsOf(TableOf(store, kind)) : d.slug = slug}

\* C20: a regeneration always returns a success/error result; it reports
\* success only when it has saved the new embedding onto the document with
\* that slug, and when it reports failure the stored embedding of every
\* document is what it was
C20_RegenerateStructured ==
    \A r \in emRunners :
        emRegenerated(r) =>
            LET run == emRun[r]
            IN  /\ run.result.kind = "regenerated"
                /\ run.result.success =>
                      /\ run.result.error = ""
                      /\ \E d \in emSlugRows(emDb, run.kind, run.slug) :
                            /\ d._id \in run.wrote
                            /\ d.embedding = emEnv.fate[d._id].reply.json
                /\ ~run.result.success =>
                      /\ run.result.error # ""
                      /\ run.wrote = {}
                      /\ emDb = run.before

\* C20 witness: a regeneration that failed after the provider was called
C20_Witness ==
    \E r \in emRunners :
        /\ emRegenerated(r)
        /\ ~emRun[r].result.success
        /\ emRun[r].sent # {}
        /\ emSlugRows(emDb, emRun[r].kind, emRun[r].slug) # {}

\* C20 witness of the success case: a regeneration saved the new embedding
\* and reported success
C20_SuccessWitness ==
    \E r \in emRunners : emRegenerated(r) /\ emRun[r].result.success

-----------------------------------------------------------------------------
(* Claims about snippets, anchors and heading ids                           *)

\* createSnippet has returned for a term that occurs in the text as given
snTermFound == snPhase = "snippet" /\ snOut.originalIndex # -1

\* the starts (from 1) of the heading lines at or before the term's first
\* occurrence in the text as given
snHeadingsBefore ==
    {b \in HeadingStarts(snIn.content) : b - 1 <= snOut.originalIndex}

\* C21: for a term that occurs in the text, the anchor is the slug of the
\* last heading line that starts at or before the term's first occurrence in
\* the text as given, and it is null exactly when there is no such heading
C21_AnchorOfLastHeadingBefore ==
    snTermFound =>
        /\ (snOut.anchor = Null) <=> (snHeadingsBefore = {})
        /\ snHeadingsBefore # {} =>
              snOut.anchor =
                  generateSlug(HeadingText(LineAt(snIn.content, Greatest(snHeadingsBefore))))

\* C21, the example of the specification: in "# A\nfoo\n## B\nbar baz" the
\* term "baz" has the anchor "b" and "foo" the anchor "a"
C21_ExampleAnchors ==
    (snPhase = "snippet" /\ snIn.content = "# A\nfoo\n## B\nbar baz") =>
        /\ snIn.term = "baz" => snOut.anchor = "b"
        /\ snIn.term = "Foo" => snOut.anchor = "a"

\* C21: a term that stands after a heading in the text as given, but only in
\* a link target that the strip chain removes, gets no anchor
C21_TermLostInCleanContent ==
    /\ snTermFound
    /\ snHeadingsBefore # {}
    /\ indexOf(LowerFrom(snOut.clean, 1), LowerFrom(snIn.term, 1)) = -1
    /\ snOut.anchor = Null

\* C21: a term under a heading whose slug is empty gets no anchor
C21_EmptyHeadingId ==
    /\ snTermFound
    /\ snHeadingsBefore # {}
    /\ indexOf(LowerFrom(snOut.clean, 1), LowerFrom(snIn.term, 1)) # -1
    /\ snOut.anchor = Null

-----------------------------------------------------------------------------
(* Claims about content retrieval and title retrieval of keyword search     *)

\* the documents whose body the configured gateway refuses with 401, 403 or
\* 429 (or by throwing) while the public gateway serves it, published,
\* listed, not a title result, the body matching the query
srDueThroughFallback ==
    {d \in srDocs :
        /\ d.published /\ ~(d.type = "post" /\ d.unlisted)
        /\ d._id \notin IdsOf(srOut.titleResults)
        /\ HostOf(searchGetIPFSGatewayUrl(srCall.env)) = "custom"
        /\ \/ srFirstReply(d).kind = "throw"
           \/ srFirstReply(d).kind = "http" /\ srFirstReply(d).status \in RetryStatuses
        /\ PublicReply(d.contentCid).kind = "http"
        /\ PublicReply(d.contentCid).status = 200
        /\ MatchesInContent(PublicReply(d.contentCid).body, srCall.query)}

\* C22: keyword search fetches bodies with the primary / fallback policy: a
\* document the configured gateway refuses and the public gateway serves
\* with a matching body is among the documents the search gathered
C22_ContentFetchFallsBack ==
    (srDone /\ srCall.mode = "search" /\ ~BlankQuery(srCall.query)) =>
        {d._id : d \in srDueThroughFallback} \subseteq IdsOf(srOut.candidates)

\* C22: a keyword search has asked the configured gateway for such a
\* document's body and returned without the document
C22_RefusedDocumentSkipped ==
    /\ srDone /\ srCall.mode = "search"
    /\ \E d \in srDueThroughFallback :
        /\ d._id \in srOut.fetched
        /\ d._id \notin IdsOf(srOut.candidates)
        /\ Len(srOut.results) < 15

-----------------------------------------------------------------------------
(* Claims about the strip chain and heading ids                             *)

\* C23: stripping is idempotent: the strip chain applied to a text it has
\* produced gives that text again
C23_StripIdempotent ==
    snPhase = "restripped" => snOut.again = snOut.clean

\* C23: a text of backquotes around a letter whose stripped form a second
\* pass changes
C23_SecondStripChanges ==
    /\ snPhase = "restripped"
    /\ Includes(snIn.content, Tick \o Tick \o "a" \o Tick \o Tick)
    /\ snOut.again # snOut.clean

-----------------------------------------------------------------------------
(* Claims about when the gateway client falls back                          *)

\* the configured gateway answered with a non-success status other than
\* 401, 403 and 429
gwPrimaryOtherFailure ==
    /\ gwPrimaryReply.kind = "http"
    /\ ~ResponseOk(gwPrimaryReply)
    /\ gwPrimaryReply.status \notin {401, 403, 429}

\* C24: the call sends a request after its first one only if the primary
\* attempt threw or returned 401, 403 or 429; on any other non-success
\* status it fails with that status after its single request
C24_FallbackOnlyWhenRefusedOrThrown ==
    gwDone =>
        /\ gwFallbackRequests # {} =>
              \/ gwPrimaryReply.kind = "throw"
              \/ gwPrimaryReply.kind = "http" /\ gwPrimaryReply.status \in {401, 403, 429}
        /\ gwPrimaryOtherFailure =>
              /\ Len(gwOut.requests) = 1
              /\ ~gwOut.ok
              /\ EndsWith(gwOut.error, FailureDetail(gwPrimaryReply))

\* C24: the configured gateway answered 404 or 500, and the call went on to
\* the public gateway and returned its body
C24_FallbackAfterOtherStatus ==
    /\ gwDone
    /\ gwBase # publicGatewayBase
    /\ gwPrimaryReply.kind = "http" /\ gwPrimaryReply.status \in {404, 500}
    /\ Len(gwOut.requests) = 2
    /\ gwOut.requests[2].url = gwPublicUrl
    /\ gwOut.ok

\* the characters of [a-z0-9-]
IdChars == SlugChars \ SpaceChars

\* C25: a heading id consists of characters of [a-z0-9-], has no two
\* dashes in a row, and neither begins nor ends with a dash
C25_SlugWellFormed ==
    snPhase = "heading" =>
        /\ \A i \in 1..Len(snOut.id) : CharAt(snOut.id, i) \in IdChars
        /\ ~Includes(snOut.id, "--")
        /\ ~StartsWith(snOut.id, "-")
        /\ ~EndsWith(snOut.id, "-")

\* C25, the part about the characters and the runs of dashes
C25_SlugCharsAndRuns ==
    snPhase = "heading" =>
        /\ \A i \in 1..Len(snOut.id) : CharAt(snOut.id, i) \in IdChars
        /\ ~Includes(snOut.id, "--")

\* C25: the id of a heading whose text ends with punctuation after a blank
C25_SlugEndsWithDash ==
    /\ snPhase = "heading"
    /\ snIn.content = "a #"
    /\ snOut.id = "a-"

\* where the first fenced code block of s starts and ends, <<0, 0>> if none
FirstCodeBlock(s) ==
    LET open == IndexFrom(s, Fence, 1)
        close == IF open = 0 THEN 0 ELSE IndexFrom(s, Fence, open + 3)
    IN  IF close = 0 THEN <<0, 0>> ELSE <<open, close + 2>>

\* where the first image of s starts and ends, <<0, 0>> if none
FirstImage(s) ==
    LET starts == {i \in 1..Len(s) : ImageEnd(s, i) # 0}
    IN  IF starts = {} THEN <<0, 0>>
        ELSE <<CHOOSE i \in starts : \A j \in starts : i <= j,
               ImageEnd(s, CHOOSE i \in starts : \A j \in starts : i <= j)>>

Inside(s, span) == SubSeq(s, span[1], span[2])
Outside(s, span) == SubSeq(s, 1, span[1] - 1) \o " " \o SubSeq(s, span[2] + 1, Len(s))

\* the words of the span that are in the stripped text and nowhere else in s
Leftover(s, span, stripped) ==
    {w \in {Words(Inside(s, span))[k] : k \in 1..Len(Words(Inside(s, span)))} :
        /\ Includes(LowerFrom(stripped, 1), w)
        /\ ~Includes(LowerFrom(Outside(s, span), 1), w)}

\* C26: after stripping nothing of a fenced code block and nothing of an
\* image (alt text, URL, the leading !) is left in the text the snippet is
\* cut from
C26_CodeBlocksAndImagesRemoved ==
    snPhase = "snippet" =>
        /\ FirstCodeBlock(snIn.content) # <<0, 0>> =>
              Leftover(snIn.content, FirstCodeBlock(snIn.content), snOut.clean) = {}
        /\ FirstImage(snIn.content) # <<0, 0>> =>
              /\ Leftover(snIn.content, FirstImage(snIn.content), snOut.clean) = {}
              /\ Includes(snOut.clean, "!") =>
                    Includes(Outside(snIn.content, FirstImage(snIn.content)), "!")

\* C26: a text with a fenced code block and an image, stripped, with the
\* text of the block, the backquotes of its fences and the ! and alt text
\* of the image in the result
C26_BlockAndImageLeftBehind ==
    /\ snPhase = "snippet"
    /\ Includes(snIn.content, Fence \o "sh\nfoo\n" \o Fence)
    /\ Includes(snIn.content, "![alt](pic.png)")
    /\ Includes(snOut.clean, "foo")
    /\ Includes(snOut.clean, Tick)
    /\ Includes(snOut.clean, "!alt")

-----------------------------------------------------------------------------
(* Claims about the query vector of semantic search                         *)

\* a flat array of numbers
IsFlatVector(j) ==
    /\ IsArray(j)
    /\ j.items # <<>>
    /\ \A i \in 1..Len(j.items) : j.items[i].t = "number"

\* the provider's body is a vector wrapped in one outer array
srNestedReply ==
    /\ IsArray(srCall.reply.json)
    /\ Len(srCall.reply.json.items) = 1
    /\ IsFlatVector(srCall.reply.json.items[1])

\* the provider's body carries a wrapped vector under the embeddings key
srKeyedReply ==
    /\ IsArray(EmbeddingsOf(srCall.reply.json))
    /\ Len(EmbeddingsOf(srCall.reply.json).items) = 1
    /\ IsFlatVector(FirstOf(EmbeddingsOf(srCall.reply.json)))

\* a semantic search whose provider call returned a success status
srProviderAnswered ==
    /\ srDone /\ srCall.mode = "semanticSearch"
    /\ srCall.reply.kind = "http"
    /\ srCall.reply.status \in 200..299

\* C27: a query vector that comes wrapped in one outer array or under an
\* embeddings key is unwrapped: the vector index is asked with the inner
\* flat vector and the search returns a list; a nested array is never what
\* the vector index is asked with
C27_WrappedQueryVectorUnwrapped ==
    srProviderAnswered =>
        /\ srOut.vectorSearched =>
              IsFlatVector(ExtractQueryEmbedding(srCall.reply.json).vector)
        /\ srNestedReply =>
              /\ srOut.vectorSearched
              /\ srOut.kind = "list"
              /\ ExtractQueryEmbedding(srCall.reply.json).vector
                     = srCall.reply.json.items[1]
        /\ srKeyedReply =>
              /\ srOut.vectorSearched
              /\ srOut.kind = "list"
              /\ ExtractQueryEmbedding(srCall.reply.json).vector
                     = FirstOf(EmbeddingsOf(srCall.reply.json))

\* C27, the part about the embeddings key
C27_KeyedQueryVectorUnwrapped ==
    (srProviderAnswered /\ srKeyedReply) =>
        /\ srOut.vectorSearched
        /\ srOut.kind = "list"
        /\ ExtractQueryEmbedding(srCall.reply.json).vector
               = FirstOf(EmbeddingsOf(srCall.reply.json))

\* C27: the provider answered [[v1, v2, v3]], the vector index was asked
\* with that nested array as it came, and the search ended with its error
C27_NestedVectorPassedOn ==
    /\ srProviderAnswered
    /\ srNestedReply
    /\ srOut.vectorSearched
    /\ ExtractQueryEmbedding(srCall.reply.json).vector = srCall.reply.json
    /\ srOut.kind = "throw"

-----------------------------------------------------------------------------
(* Claims about the cap of title retrieval                                  *)

\* the published, listed posts whose title the index matches with the query
srListedTitleMatches ==
    {db.posts[i] : i \in {k \in 1..Len(db.posts) :
        /\ db.posts[k].published
        /\ ~db.posts[k].unlisted
        /\ TitleIndexTable[db.posts[k].title, srCall.query]}}

\* the unlisted published posts whose title the index matches
srUnlistedTitleMatches ==
    {db.posts[i] : i \in {k \in 1..Len(db.posts) :
        /\ db.posts[k].published
        /\ db.posts[k].unlisted
        /\ TitleIndexTable[db.posts[k].title, srCall.query]}}

\* C28: unlisted posts do not use up the cap of 10 of title retrieval: when
\* fewer than 10 published, listed posts match the query in the title index,
\* each of them is among the results of title retrieval, however many
\* unlisted posts match as well
C28_UnlistedDoNotUseTheCap ==
    (/\ srDone /\ srCall.mode = "searchTitleOnly"
     /\ ~BlankQuery(srCall.query)
     /\ Cardinality(srListedTitleMatches) < titleTake)
        => {d._id : d \in srListedTitleMatches} \subseteq IdsOf(srOut.results)

\* C28: title retrieval over ten matching unlisted posts and one matching
\* listed post behind them has returned the empty list
C28_ListedPostCrowdedOut ==
    /\ srDone /\ srCall.mode = "searchTitleOnly"
    /\ Cardinality(srListedTitleMatches) = 1
    /\ Cardinality(srUnlistedTitleMatches) >= titleTake
    /\ srOut.results = <<>>

-----------------------------------------------------------------------------
(* Claims about which documents the embedding pipeline writes               *)

\* the stored document with this id
emRowOf(id) == RowById(TableOf(emDb, id[1]), id)

\* C29: the pipeline writes an embedding only onto documents that are
\* published and, for posts, not unlisted: no run, batch or regeneration,
\* has written onto an unpublished or an unlisted document
C29_OnlyPublishedListedWritten ==
    \A r \in emRunners : \A id \in emRun[r].wrote :
        /\ emRowOf(id).published
        /\ id[1] = "post" => ~emRowOf(id).unlisted

\* C29, for the batch runs alone
C29_BatchesWriteOnlyPublishedListed ==
    \A r \in emRunners :
        emRun[r].entry \in emBackfills \cup {"generateMissingEmbeddings"} =>
            \A id \in emRun[r].wrote :
                /\ emRowOf(id).published
                /\ id[1] = "post" => ~emRowOf(id).unlisted

\* C29: a regeneration has reported success for the slug of an unpublished
\* or unlisted post, which had no embedding before and has one now
C29_RegeneratedHiddenPost ==
    \E r \in emRunners :
        /\ emRegenerated(r)
        /\ emRun[r].kind = "post"
        /\ emRun[r].result.success
        /\ \E d \in emSlugRows(emDb, "post", emRun[r].slug) :
            /\ ~d.published \/ d.unlisted
            /\ d._id \in emRun[r].wrote
            /\ d.embedding.t # "undefined"
            /\ \E b \in emSlugRows(emRun[r].before, "post", emRun[r].slug) :
                  b._id = d._id /\ b.embedding.t = "undefined"

-----------------------------------------------------------------------------
(* Claims about useIPFSContent                                              *)

\* the fetch the last effect started is still pending
hkCurrentPending ==
    \E i \in 1..Len(hkFlights) :
        /\ hkFlights[i].started = hkChanges
        /\ hkFlights[i].cid = hkCid
        /\ hkFlights[i].stage = "pending"

\* every callback of every fetch has run
hkQuiet == hkFlights = <<>>

\* C30: after the cid has changed while a fetch was in flight, whatever the
\* order in which the fetches complete, the hook does not end up with the
\* content or the error of another cid than the current one, and isLoading
\* is not false while the fetch of the current cid is in flight
C30_NoStaleResultForNewCid ==
    /\ (hkQuiet /\ hkCid \in {"QmA", "QmB"}) =>
          /\ hkView.content \in {Null, ContentAt(hkCid)}
          /\ hkView.error \in {Null, ErrorAt(hkCid)}
    /\ hkCurrentPending => hkView.isLoading

\* C30: the cid is QmB, all callbacks have run, and the hook holds the
\* content of QmA
C30_StaleContentExposed ==
    /\ hkQuiet
    /\ hkCid = "QmB"
    /\ hkView.content = ContentAt("QmA")

\* C30: the cid is QmB, all callbacks have run, and the hook holds the
\* error of QmA's fetch
C30_StaleErrorExposed ==
    /\ hkQuiet
    /\ hkCid = "QmB"
    /\ hkView.error = ErrorAt("QmA")

\* C30: the fetch of the current cid is pending and isLoading is false
C30_NotLoadingWhilePending ==
    /\ hkCurrentPending
    /\ hkCid = "QmB"
    /\ ~hkView.isLoading

\* C30, with only one fetch under way at a time the hook holds what belongs
\* to the current cid and is loading while the fetch is pending
C30_SingleFetchConsistent ==
    (hkChanges <= 1) =>
        /\ (hkQuiet /\ hkCid \in {"QmA", "QmB"}) =>
              /\ hkView.content \in {Null, ContentAt(hkCid)}
              /\ hkView.error \in {Null, ErrorAt(hkCid)}
        /\ hkCurrentPending => hkView.isLoading

=============================================================================
